---- MODULE Spec2Model ----
(***************************************************************************)
(* Batch audit orchestration of LightHouse-Audit:                          *)
(*   main                (lighthouse-audit.js)                             *)
(*   runLighthouseAudit  (utils/lighthouse-runner.js)                      *)
(*   handleDisclaimers   (utils/disclaimer-handler.js)                     *)
(* Every await of the code is one step.  The external collaborators        *)
(* (chrome-launcher, lighthouse, fs-extra, playwright) are black boxes:    *)
(* each call either returns or throws.                                     *)
(***************************************************************************)
EXTENDS Integers, Sequences, FiniteSets, TLC

VARIABLES
    urls,          \* the list readUrlsFromCSV resolves to
    pc,            \* position of main
    i,             \* index of the URL the for-of loop of main is at
    dev,           \* device of the job main is running
    results,       \* the ledger: main's results array
    exitCode,      \* 0 until the process ends with status 1
    mode,          \* "main": lighthouse-audit.js; "test": the audit test of the test suites
    fatalErr,      \* <<>> or <<at>>: the step whose error left the batch (main: logged by the outer catch)
    emitted,       \* batch artefacts written: "audit-summary.json", "audit-summary.html"
    summary,       \* the figures of the summary document and of main's final summary, as rendered
    jobs,          \* history: the runLighthouseAudit calls made, in order
    rpc,           \* position of runLighthouseAudit
    exc,           \* <<>> or <<v>>: the exception pending / thrown by the runner
    ret,           \* <<>> or <<r>>: the value the runner returns
    lhr,           \* <<>> or <<l>>: runnerResult.lhr of the current job
    fault,         \* history: <<>> or <<[at, value]>>, first primitive that threw in this job
    written,       \* files written under the current job's deviceDir
    chromeOpen,    \* chrome handles launched on which kill() was not called yet
    browserOpen,   \* this job's playwright browser is launched and close() was not called
    contextOpen,   \* this job's browser context is created and close() was not called
    pageOpen,      \* this job's page is created and close() was not called
    deviceDir,     \* <<>> or the deviceDir path computed by the current job
    calls,         \* history: calls of the current job's inner try, in order
    leaked,        \* history: handles that jobs which have ended left open
    clock,         \* the last reading of the system clock, in milliseconds after 2026-10-30T21:07:52.120Z
    config,        \* <<>> or <<the audit configuration the job has built>>
    contextOptions, \* <<>> or <<the options the screenshot context was created with>>
    page,          \* how the page under the resolver answers the page primitives
    hpc,           \* position of handleDisclaimers
    hcat,          \* catalog the resolver is iterating: "consent" or "cookie"
    hidx,          \* index of the candidate of the for-of loop
    hexc,          \* <<>> or <<v>>: exception leaving handleDisclaimers
    queried,       \* history: candidates passed to page.locator, in order
    clicks,        \* history: element.click() calls, in order
    outcomes,      \* history: how each runLighthouseAudit call of the batch settled
    hret,          \* <<>> or <<b>>: the value hasDisclaimers returned
    visited,       \* history: indexes of the URLs the page-load test navigated to
    logged,        \* history: the errors the page-load test wrote to the console
    csvFile,       \* the input file readUrlsFromCSV streams
    csvPos,        \* number of rows the parser has delivered as 'data' events
    csvOut,        \* the results array of readUrlsFromCSV
    csvState       \* "idle", "reading", "resolved", "rejected" or "uncaught"

vars == <<urls, pc, i, dev, results, exitCode, mode, fatalErr, emitted, summary, jobs, outcomes, rpc, exc, ret, lhr, fault,
          written, chromeOpen, browserOpen, contextOpen, pageOpen, deviceDir, calls, leaked,
          clock, config, contextOptions,
          page, hpc, hcat, hidx, hexc, queried, clicks,
          hret, visited, logged, csvFile, csvPos, csvOut, csvState>>

\* state of the functions that are modelled on their own
csvVars  == <<csvFile, csvPos, csvOut, csvState>>
aloneVars == <<hret, csvVars, visited, logged>>

mainVars   == <<urls, pc, i, dev, results, exitCode, mode, fatalErr, emitted, summary, jobs, outcomes,
                aloneVars>>
runnerVars == <<rpc, exc, ret, lhr, fault, written, chromeOpen, browserOpen,
                contextOpen, pageOpen, deviceDir, calls, leaked, clock, config, contextOptions>>
resolverVars == <<page, hpc, hcat, hidx, hexc, queried, clicks>>

----------------------------------------------------------------------------
(* Bounds and inputs *)

MaxUrls == 2
MaxUrlLen == 3

\* number of rows of the input file
MaxRows == 2

\* number of entries of disclaimerIndicators the model keeps
IndicatorCount == 3

\* number of candidates of consentSelectors / cookieSelectors the model keeps
ConsentCount == 2
CookieCount == 2

Undefined == "<undefined>"

\* Strings the code transforms are sequences of one-character strings.
\* k-th row of the input list (https://a.test, https://a/test: two URLs with
\* the same slug); the third row repeats the first URL
UrlAt(k) ==
    IF k % 2 = 1 THEN [url |-> <<"h", "t", "t", "p", "s", ":", "/", "/", "a", ".", "t", "e", "s", "t">>,
                       description |-> "A"]
                 ELSE [url |-> <<"h", "t", "t", "p", "s", ":", "/", "/", "a", "/", "t", "e", "s", "t">>,
                       description |-> "B"]

\* a list with the same row twice
DuplicateList == [k \in 1..2 |-> UrlAt(1)]

InputLists == { [k \in 1..n |-> UrlAt(k)] : n \in 0..MaxUrls } \cup {DuplicateList}

OutputDir == "reports"

\* Values a JavaScript throw can carry.  kind "Error": an Error object with
\* its message; "NonError": a non-null value without a message property
\* (a thrown string); "Nullish": null or undefined, told apart by `literal`.
ErrStep     == [kind |-> "Error",    message |-> "step failed"]
ErrEmpty    == [kind |-> "Error",    message |-> ""]
NoMessage   == [kind |-> "NonError", message |-> Undefined]
Nullish     == [kind |-> "Nullish",  message |-> Undefined, literal |-> "null"]
NullishUndefined ==
    [kind |-> "Nullish", message |-> Undefined, literal |-> "undefined"]
ErrTeardown == [kind |-> "Error",    message |-> "teardown failed"]
\* the TypeError of reading error.message when error is null or undefined
TypeErrorOnMessage(v) ==
    [kind |-> "Error",
     message |-> IF v.literal = "null"
                 THEN "Cannot read properties of null (reading 'message')"
                 ELSE "Cannot read properties of undefined (reading 'message')"]

\* what the audit engine and the launcher may throw
EngineThrows   == {ErrStep, ErrEmpty, NoMessage, Nullish, NullishUndefined}
\* what the other calls of the try body may throw
StepThrows     == {ErrStep}
\* what close() and kill() may throw
TeardownThrows == {ErrTeardown}

\* milliseconds between two readings of the system clock: nothing in the
\* program makes two readings differ, so the clock may show the millisecond of
\* the last reading again (no millisecond has passed, or the clock was set
\* back in between) or a later one
ClockSteps == {0, 1}

\* category scores of the audit engine, in thousandths of 1.0
LhrSamples ==
    { [performance |-> 995, accessibility |-> 1000, bestPractices |-> 4, seo |-> 505] }

----------------------------------------------------------------------------
(* Pure helpers *)

\* mutant: the product is truncated
RoundScore_Floor(s) == s \div 10

\* the scores s/1000 whose product with 100 is, in IEEE doubles, just below
\* the half that the exact product is on: 0.145 * 100 = 14.499999999999998,
\* 0.285 * 100 = 28.499999999999996, 0.565 * 100 = 56.49999999999999,
\* 0.575 * 100 = 57.49999999999999
RoundsBelowHalf == {145, 285, 565, 575}

\* Math.round(score * 100) of the score s/1000: halves round up, and the four
\* products above round down
RoundScore(s) == IF s \in RoundsBelowHalf THEN s \div 10 ELSE (s + 5) \div 10

Scores(l) ==
    [performance   |-> RoundScore(l.performance),
     accessibility |-> RoundScore(l.accessibility),
     bestPractices |-> RoundScore(l.bestPractices),
     seo           |-> RoundScore(l.seo)]

\* lighthouse config built from the device
Config(device) ==
  [extends |-> "lighthouse:default",
   settings |->
    [onlyCategories    |-> <<"performance", "accessibility", "best-practices", "seo">>,
     formFactor        |-> IF device = "mobile" THEN "mobile" ELSE "desktop",
     throttling        |-> [rttMs |-> 40, throughputKbps |-> 10240, cpuSlowdownMultiplier |-> 1],
     screenEmulation   |-> IF device = "mobile"
                           THEN [mobile |-> TRUE,  width |-> 390,  height |-> 844,
                                 deviceScaleFactor |-> 2, disabled |-> FALSE]
                           ELSE [mobile |-> FALSE, width |-> 1920, height |-> 1080,
                                 deviceScaleFactor |-> 1, disabled |-> FALSE],
     emulatedUserAgent |-> IF device = "mobile"
         THEN "Mozilla/5.0 (Linux; Android 10; Pixel 3) AppleWebKit/537.36 (KHTML, like Gecko) Chrome/91.0.4472.120 Mobile Safari/537.36"
         ELSE "Mozilla/5.0 (Windows NT 10.0; Win64; x64) AppleWebKit/537.36 (KHTML, like Gecko) Chrome/91.0.4472.124 Safari/537.36"]]

\* the options of browser.newContext
ContextOptions(device) ==
    [viewport  |-> IF device = "mobile" THEN [width |-> 375, height |-> 667]
                                        ELSE [width |-> 1350, height |-> 940],
     userAgent |-> Config(device).settings.emulatedUserAgent]

Digits == {"0", "1", "2", "3", "4", "5", "6", "7", "8", "9"}
Lower  == {"a", "b", "c", "d", "e", "f", "g", "h", "i", "j", "k", "l", "m",
           "n", "o", "p", "q", "r", "s", "t", "u", "v", "w", "x", "y", "z"}
Upper  == {"A", "B", "C", "D", "E", "F", "G", "H", "I", "J", "K", "L", "M",
           "N", "O", "P", "Q", "R", "S", "T", "U", "V", "W", "X", "Y", "Z"}

\* mutant: the replacement keeps the dots of the URL
UrlSlug_KeepDot(url) ==
    [k \in 1..Len(url) |->
        IF url[k] \in Lower \cup Upper \cup Digits \cup {"."} THEN url[k] ELSE "_"]

\* url.replace(/[^a-zA-Z0-9]/g, '_')
UrlSlug(url) ==
    [k \in 1..Len(url) |->
        IF url[k] \in Lower \cup Upper \cup Digits THEN url[k] ELSE "_"]

DigitChar(d) == <<"0", "1", "2", "3", "4", "5", "6", "7", "8", "9">>[d + 1]

\* the instant the clock readings are counted from: 2026-10-30T21:07:52.120Z
StartHour   == 21
StartMinute == 7
StartSecond == 52
StartMilli  == 120

\* a field of two digits
TwoDigits(n) == <<DigitChar(n \div 10), DigitChar(n % 10)>>

\* new Date().toISOString() when the clock shows ms milliseconds after that
\* instant: YYYY-MM-DDTHH:mm:ss.sssZ, each field carrying into the next
\* (within October 2026)
ToISOString(ms) ==
    LET total   == StartMilli + ms
        milli   == total % 1000
        seconds == StartSecond + total \div 1000
        minutes == StartMinute + seconds \div 60
        hours   == StartHour + minutes \div 60
        day     == 30 + hours \div 24
    IN  <<"2", "0", "2", "6", "-", "1", "0", "-">> \o TwoDigits(day) \o <<"T">>
        \o TwoDigits(hours % 24) \o <<":">>
        \o TwoDigits(minutes % 60) \o <<":">>
        \o TwoDigits(seconds % 60) \o <<".">>
        \o <<DigitChar(milli \div 100), DigitChar((milli \div 10) % 10), DigitChar(milli % 10), "Z">>

\* new Date().toISOString().replace(/[:.]/g, '-')
Timestamp(iso) ==
    [k \in 1..Len(iso) |-> IF iso[k] \in {":", "."} THEN "-" ELSE iso[k]]

\* path.join(outputDir, device, urlSlug, timestamp): the path's components
DeviceDir(url, device, iso) == <<OutputDir, device, UrlSlug(url), Timestamp(iso)>>

\* path.join(deviceDir, <file name>)
ReportPath(dir)     == Append(dir, "lighthouse-report.html")
JsonPath(dir)       == Append(dir, "lighthouse-report.json")
ScreenshotPath(dir) == Append(dir, "page-screenshot.png")

\* the object runLighthouseAudit returns
AuditResult(dir, l) ==
    [report     |-> ReportPath(dir),
     screenshot |-> ScreenshotPath(dir),
     scores     |-> Scores(l)]

\* { url, description, device, ...result }
SuccessEntry(u, device, r) ==
    r @@ [url |-> u.url, description |-> u.description, device |-> device]

\* { url, description, device, error: error.message }
FailureEntry(u, device, v) ==
    [url |-> u.url, description |-> u.description, device |-> device,
     error |-> v.message]

\* JavaScript truthiness of result.error
Truthy(e) == "error" \in DOMAIN e /\ e.error \notin {Undefined, ""}

----------------------------------------------------------------------------
(* Pages: how each candidate of the two catalogs answers the primitives.
   "hidden": isVisible resolves false; "visible": isVisible resolves true and
   click and waitForTimeout succeed; "locatorThrows", "isVisibleThrows",
   "clickThrows" (visible, click throws), "settleThrows" (visible, clicked,
   waitForTimeout throws). *)
Behaviours ==
    {"hidden", "visible", "locatorThrows", "isVisibleThrows", "clickThrows", "settleThrows"}

\* load "idle": waitForLoadState('networkidle') resolves; "timeout": it throws
AllPages ==
    [load : {"idle", "timeout"},
     consent : [1..ConsentCount -> Behaviours],
     cookie : [1..CookieCount -> Behaviours]]

NoPage == [load |-> "none", consent |-> <<>>, cookie |-> <<>>]

NoFile == [rows |-> <<>>, fails |-> "never"]

\* the pages the batch runs meet
SamplePages ==
    { [load |-> "idle",
       consent |-> [k \in 1..ConsentCount |-> "hidden"],
       cookie |-> [k \in 1..CookieCount |-> "hidden"]],
      [load |-> "timeout",
       consent |-> [k \in 1..ConsentCount |-> "visible"],
       cookie |-> [k \in 1..CookieCount |-> "visible"]],
      [load |-> "idle",
       consent |-> [k \in 1..ConsentCount |-> IF k = 1 THEN "settleThrows" ELSE "visible"],
       cookie |-> [k \in 1..CookieCount |-> IF k = 1 THEN "clickThrows" ELSE "isVisibleThrows"]] }

----------------------------------------------------------------------------
Init ==
    /\ urls \in InputLists
    /\ pc = "readCsv"
    /\ i = 1
    /\ dev = "desktop"
    /\ results = <<>>
    /\ exitCode = 0
    /\ mode = "main"
    /\ fatalErr = <<>>
    /\ emitted = {}
    /\ summary = <<>>
    /\ jobs = <<>>
    /\ outcomes = <<>>
    /\ rpc = "idle"
    /\ exc = <<>>
    /\ ret = <<>>
    /\ lhr = <<>>
    /\ fault = <<>>
    /\ written = {}
    /\ chromeOpen = 0
    /\ browserOpen = FALSE
    /\ contextOpen = FALSE
    /\ pageOpen = FALSE
    /\ deviceDir = <<>>
    /\ calls = <<>>
    /\ leaked = {}
    /\ clock = 0
    /\ config = <<>>
    /\ contextOptions = <<>>
    /\ page = NoPage
    /\ hpc = "idle"
    /\ hcat = "consent"
    /\ hidx = 1
    /\ hexc = <<>>
    /\ queried = <<>>
    /\ clicks = <<>>
    /\ hret = <<>>
    /\ visited = <<>>
    /\ logged = <<>>
    /\ csvFile = NoFile
    /\ csvPos = 0
    /\ csvOut = <<>>
    /\ csvState = "idle"

----------------------------------------------------------------------------
(* runLighthouseAudit *)

NoteFault(at, v) ==
    fault' = IF fault = <<>> THEN <<[at |-> at, value |-> v]>> ELSE fault

\* a throw inside the outer try: control passes to the finally block
ThrowInTry(at, v) ==
    /\ exc' = <<v>>
    /\ rpc' = "kill"
    /\ NoteFault(at, v)

\* const chrome = await chromeLauncher.launch(...), before the try
LaunchChrome ==
    /\ rpc = "launch"
    /\ \/ /\ chromeOpen' = chromeOpen + 1
          /\ rpc' = "lighthouse"
          /\ UNCHANGED <<exc, fault>>
       \/ \E v \in EngineThrows :
          /\ exc' = <<v>>
          /\ rpc' = "thrown"
          /\ NoteFault("launch", v)
          /\ UNCHANGED chromeOpen
    /\ UNCHANGED <<ret, lhr, written, browserOpen, contextOpen, pageOpen, deviceDir, calls, leaked, clock, config, contextOptions>>
    /\ UNCHANGED mainVars
    /\ UNCHANGED resolverVars

\* const runnerResult = await lighthouse(url, {port: chrome.port, ...}, config)
RunLighthouse ==
    /\ rpc = "lighthouse"
    /\ config' = <<Config(dev)>>
    /\ \/ \E l \in LhrSamples :
          /\ lhr' = <<l>>
          /\ rpc' = "ensureDir"
          /\ UNCHANGED <<exc, fault>>
       \/ \E v \in EngineThrows :
          /\ ThrowInTry("lighthouse", v)
          /\ UNCHANGED lhr
    /\ UNCHANGED <<ret, written, chromeOpen, browserOpen, contextOpen, pageOpen, deviceDir, calls, leaked, clock, contextOptions>>
    /\ UNCHANGED mainVars
    /\ UNCHANGED resolverVars

\* a file-system call of the try body: returns (effect on written) or throws
FsStep(at, next, file) ==
    /\ rpc = at
    /\ \/ /\ written' = written \cup file
          /\ rpc' = next
          /\ UNCHANGED <<exc, fault>>
       \/ \E v \in StepThrows :
          /\ ThrowInTry(at, v)
          /\ UNCHANGED written
    /\ UNCHANGED <<ret, lhr, chromeOpen, browserOpen, contextOpen, pageOpen, deviceDir, calls, leaked, clock, config, contextOptions>>
    /\ UNCHANGED mainVars
    /\ UNCHANGED resolverVars

\* new Date(): the readings the system clock may give
NewDate == { clock + step : step \in ClockSteps }

\* const timestamp = new Date()...; await fs.ensureDir(deviceDir)
EnsureDeviceDir ==
    /\ rpc = "ensureDir"
    /\ \E now \in NewDate :
          /\ clock' = now
          /\ deviceDir' = DeviceDir(urls[i].url, dev, ToISOString(now))
    /\ \/ /\ rpc' = "writeHtml"
          /\ UNCHANGED <<exc, fault>>
       \/ \E v \in StepThrows : ThrowInTry("ensureDir", v)
    /\ UNCHANGED <<ret, lhr, written, chromeOpen, browserOpen, contextOpen, pageOpen, calls, leaked, config, contextOptions>>
    /\ UNCHANGED mainVars
    /\ UNCHANGED resolverVars

\* await fs.writeFile(reportPath, runnerResult.report)
WriteHtmlReport == FsStep("writeHtml", "writeJson", {ReportPath(deviceDir)})

\* mutant: the JSON report is not written
WriteJsonReport_Skipped == FsStep("writeJson", "pwLaunch", {})

\* await fs.writeJson(jsonPath, runnerResult.lhr, ...)
WriteJsonReport == FsStep("writeJson", "pwLaunch", {JsonPath(deviceDir)})

\* const browser = await chromium.launch(...), outside the inner try
LaunchBrowser ==
    /\ rpc = "pwLaunch"
    /\ \/ /\ browserOpen' = TRUE
          /\ rpc' = "newContext"
          /\ UNCHANGED <<exc, fault>>
       \/ \E v \in StepThrows :
          /\ ThrowInTry("pwLaunch", v)
          /\ UNCHANGED browserOpen
    /\ UNCHANGED <<ret, lhr, written, chromeOpen, contextOpen, pageOpen, deviceDir, calls, leaked, clock, config, contextOptions>>
    /\ UNCHANGED mainVars
    /\ UNCHANGED resolverVars

\* const context = await browser.newContext(...), outside the inner try
NewContext ==
    /\ rpc = "newContext"
    /\ \/ /\ contextOpen' = TRUE
          /\ contextOptions' = <<ContextOptions(dev)>>
          /\ rpc' = "newPage"
          /\ UNCHANGED <<exc, fault>>
       \/ \E v \in StepThrows :
          /\ ThrowInTry("newContext", v)
          /\ UNCHANGED <<contextOpen, contextOptions>>
    /\ UNCHANGED <<ret, lhr, written, chromeOpen, browserOpen, pageOpen, deviceDir, calls, leaked, clock, config>>
    /\ UNCHANGED mainVars
    /\ UNCHANGED resolverVars

\* const page = await context.newPage(), outside the inner try
NewPage ==
    /\ rpc = "newPage"
    /\ \/ /\ pageOpen' = TRUE
          /\ page' \in SamplePages
          /\ rpc' = "goto"
          /\ UNCHANGED <<exc, fault>>
       \/ \E v \in StepThrows :
          /\ ThrowInTry("newPage", v)
          /\ UNCHANGED <<pageOpen, page>>
    /\ UNCHANGED <<ret, lhr, written, chromeOpen, browserOpen, contextOpen, deviceDir, calls, leaked, clock, config, contextOptions>>
    /\ UNCHANGED mainVars
    /\ UNCHANGED <<hpc, hcat, hidx, hexc, queried, clicks>>

\* a throw inside the inner try: caught, console.warn with error.message, then
\* the inner finally.  Reading the message of null or undefined throws a
\* TypeError inside the catch block: the inner finally still runs and the
\* TypeError is pending while it does.
CaughtInInnerTry(at, v) ==
    /\ rpc' = "pageClose"
    /\ exc' = IF v.kind = "Nullish" THEN <<TypeErrorOnMessage(v)>> ELSE exc
    /\ NoteFault(at, v)

\* mutant: a failed navigation is only logged and the inner try goes on
Goto_ContinuesOnFailure ==
    /\ rpc = "goto"
    /\ calls' = Append(calls, "goto")
    /\ rpc' = "disclaimers"
    /\ \/ UNCHANGED fault
       \/ \E v \in StepThrows : NoteFault("goto", v)
    /\ UNCHANGED <<exc, ret, lhr, written, chromeOpen, browserOpen, contextOpen, pageOpen, deviceDir, leaked, clock, config, contextOptions>>
    /\ UNCHANGED mainVars
    /\ UNCHANGED resolverVars

\* await page.goto(url, {waitUntil: 'networkidle', timeout: 30000})
Goto ==
    /\ rpc = "goto"
    /\ calls' = Append(calls, "goto")
    /\ \/ /\ rpc' = "disclaimers"
          /\ UNCHANGED <<exc, fault>>
       \/ \E v \in StepThrows : CaughtInInnerTry("goto", v)
    /\ UNCHANGED <<ret, lhr, written, chromeOpen, browserOpen, contextOpen, pageOpen, deviceDir, leaked, clock, config, contextOptions>>
    /\ UNCHANGED mainVars
    /\ UNCHANGED resolverVars

\* await handleDisclaimers(page): the call
CallDisclaimers ==
    /\ rpc = "disclaimers"
    /\ hpc = "idle"
    /\ hpc' = "waitLoad"
    /\ calls' = Append(calls, "handleDisclaimers")
    /\ UNCHANGED <<page, hcat, hidx, hexc, queried, clicks>>
    /\ UNCHANGED <<rpc, exc, ret, lhr, fault, written, chromeOpen, browserOpen,
                   contextOpen, pageOpen, deviceDir, leaked, clock, config, contextOptions>>
    /\ UNCHANGED mainVars

\* await handleDisclaimers(page): the promise settles
AfterDisclaimers ==
    /\ rpc = "disclaimers"
    /\ hpc \in {"done", "thrown"}
    /\ IF hpc = "done"
       THEN /\ rpc' = "screenshot"
            /\ UNCHANGED <<exc, fault>>
       ELSE CaughtInInnerTry("handleDisclaimers", hexc[1])
    /\ hpc' = "idle"
    /\ UNCHANGED <<page, hcat, hidx, hexc, queried, clicks>>
    /\ UNCHANGED <<ret, lhr, written, chromeOpen, browserOpen, contextOpen, pageOpen, deviceDir, calls, leaked, clock, config, contextOptions>>
    /\ UNCHANGED mainVars

\* await page.screenshot({path: screenshotPath, fullPage: true})
\* mutant: a failing page.screenshot leaves its file behind
Screenshot_LeavesFile ==
    /\ rpc = "screenshot"
    /\ calls' = Append(calls, "screenshot")
    /\ written' = written \cup {ScreenshotPath(deviceDir)}
    /\ \/ /\ rpc' = "pageClose"
          /\ UNCHANGED <<exc, fault>>
       \/ \E v \in StepThrows : CaughtInInnerTry("screenshot", v)
    /\ UNCHANGED <<ret, lhr, chromeOpen, browserOpen, contextOpen, pageOpen, deviceDir, leaked, clock, config, contextOptions>>
    /\ UNCHANGED mainVars
    /\ UNCHANGED resolverVars

Screenshot ==
    /\ rpc = "screenshot"
    /\ calls' = Append(calls, "screenshot")
    /\ \/ /\ written' = written \cup {ScreenshotPath(deviceDir)}
          /\ rpc' = "pageClose"
          /\ UNCHANGED <<exc, fault>>
       \/ \E v \in StepThrows :
          /\ CaughtInInnerTry("screenshot", v)
          /\ UNCHANGED written
    /\ UNCHANGED <<ret, lhr, chromeOpen, browserOpen, contextOpen, pageOpen, deviceDir, leaked, clock, config, contextOptions>>
    /\ UNCHANGED mainVars
    /\ UNCHANGED resolverVars

\* inner finally: await page.close()
PageClose ==
    /\ rpc = "pageClose"
    /\ pageOpen' = FALSE
    /\ \/ /\ rpc' = "contextClose"
          /\ UNCHANGED <<exc, fault>>
       \/ \E v \in TeardownThrows : ThrowInTry("pageClose", v)
    /\ UNCHANGED <<ret, lhr, written, chromeOpen, browserOpen, contextOpen, deviceDir, calls, leaked, clock, config, contextOptions>>
    /\ UNCHANGED mainVars
    /\ UNCHANGED resolverVars

\* inner finally: await context.close()
ContextClose ==
    /\ rpc = "contextClose"
    /\ contextOpen' = FALSE
    /\ \/ /\ rpc' = "browserClose"
          /\ UNCHANGED <<exc, fault>>
       \/ \E v \in TeardownThrows : ThrowInTry("contextClose", v)
    /\ UNCHANGED <<ret, lhr, written, chromeOpen, browserOpen, pageOpen, deviceDir, calls, leaked, clock, config, contextOptions>>
    /\ UNCHANGED mainVars
    /\ UNCHANGED resolverVars

\* inner finally: await browser.close(); then, unless an error of the catch
\* block is pending, the return statement is evaluated
BrowserClose ==
    /\ rpc = "browserClose"
    /\ browserOpen' = FALSE
    /\ \/ /\ ret' = IF exc = <<>> THEN <<AuditResult(deviceDir, lhr[1])>> ELSE ret
          /\ rpc' = "kill"
          /\ UNCHANGED <<exc, fault>>
       \/ \E v \in TeardownThrows :
          /\ ThrowInTry("browserClose", v)
          /\ UNCHANGED ret
    /\ UNCHANGED <<lhr, written, chromeOpen, contextOpen, pageOpen, deviceDir, calls, leaked, clock, config, contextOptions>>
    /\ UNCHANGED mainVars
    /\ UNCHANGED resolverVars

\* mutant: chrome.kill() as the last statement of the try body, not in a finally
KillChrome_NoFinally ==
    /\ rpc = "kill"
    /\ IF exc = <<>>
       THEN /\ chromeOpen' = chromeOpen - 1
            /\ rpc' = "returned"
       ELSE /\ rpc' = "thrown"
            /\ UNCHANGED chromeOpen
    /\ UNCHANGED <<exc, ret, fault>>
    /\ UNCHANGED <<lhr, written, browserOpen, contextOpen, pageOpen, deviceDir, calls, leaked, clock, config, contextOptions>>
    /\ UNCHANGED mainVars
    /\ UNCHANGED resolverVars

\* outer finally: await chrome.kill()
KillChrome ==
    /\ rpc = "kill"
    /\ chromeOpen' = chromeOpen - 1
    /\ \/ /\ rpc' = IF exc = <<>> THEN "returned" ELSE "thrown"
          /\ UNCHANGED <<exc, ret, fault>>
       \/ \E v \in TeardownThrows :
          /\ exc' = <<v>>
          /\ ret' = <<>>
          /\ rpc' = "thrown"
          /\ NoteFault("kill", v)
    /\ UNCHANGED <<lhr, written, browserOpen, contextOpen, pageOpen, deviceDir, calls, leaked, clock, config, contextOptions>>
    /\ UNCHANGED mainVars
    /\ UNCHANGED resolverVars

----------------------------------------------------------------------------
(* handleDisclaimers, handleConsentDisclaimer, handleCookieDisclaimer *)

\* the number of selectors of a catalog: the page answers for each of them
CatalogLen(cat) == Len(page[cat])

\* how the current candidate answers
Behaviour == page[hcat][hidx]

\* mutant: handleDisclaimers without its try/catch
HandlerCatch_Rethrow(v) ==
    /\ hpc' = "thrown"
    /\ hexc' = <<v>>
    /\ UNCHANGED <<hcat, hidx>>

\* catch (error) of handleDisclaimers: console.log, return
HandlerCatch(v) ==
    /\ hpc' = "done"
    /\ UNCHANGED <<hcat, hidx, hexc>>

\* handleDisclaimers after handleCookieDisclaimer resolved: console.log, return
HandlerReturn ==
    /\ hpc' = "done"
    /\ UNCHANGED <<hcat, hidx, hexc>>

\* the for-of loop of a phase moves to candidate k of catalog cat, or the
\* phase is over: handleCookieDisclaimer follows handleConsentDisclaimer
RECURSIVE LoopAt(_, _)
LoopAt(cat, k) ==
    IF k <= CatalogLen(cat)
    THEN /\ hcat' = cat
         /\ hidx' = k
         /\ hpc' = "locator"
         /\ UNCHANGED hexc
    ELSE IF cat = "consent" THEN LoopAt("cookie", 1) ELSE HandlerReturn

\* return inside the loop after click and settle: the phase is over
PhaseReturn == IF hcat = "consent" THEN LoopAt("cookie", 1) ELSE HandlerReturn

\* mutant: the catch is around the loop and ends the phase
SelectorCatch_EndsPhase(v) == PhaseReturn

\* mutant: the catch tries the same selector again
SelectorCatch_Retry(v) == LoopAt(hcat, hidx)

\* catch (e) inside the loop: continue with the next selector
SelectorCatch(v) == LoopAt(hcat, hidx + 1)

\* mutant: handleCookieDisclaimer is called first
WaitForLoadState_CookieFirst ==
    /\ hpc = "waitLoad"
    /\ IF page.load = "timeout"
       THEN HandlerCatch(ErrStep)
       ELSE LoopAt("cookie", 1)
    /\ UNCHANGED <<page, queried, clicks>>
    /\ UNCHANGED runnerVars
    /\ UNCHANGED mainVars

\* await page.waitForLoadState('networkidle', {timeout})
WaitForLoadState ==
    /\ hpc = "waitLoad"
    /\ IF page.load = "timeout"
       THEN HandlerCatch(ErrStep)
       ELSE LoopAt("consent", 1)
    /\ UNCHANGED <<page, queried, clicks>>
    /\ UNCHANGED runnerVars
    /\ UNCHANGED mainVars

\* const element = await page.locator(selector).first()
Locator ==
    /\ hpc = "locator"
    /\ queried' = Append(queried, <<hcat, hidx>>)
    /\ IF Behaviour = "locatorThrows"
       THEN SelectorCatch(ErrStep)
       ELSE /\ hpc' = "isVisible"
            /\ UNCHANGED <<hcat, hidx, hexc>>
    /\ UNCHANGED <<page, clicks>>
    /\ UNCHANGED runnerVars
    /\ UNCHANGED mainVars

\* if (await element.isVisible({timeout: 2000}))
IsVisible ==
    /\ hpc = "isVisible"
    /\ CASE Behaviour = "isVisibleThrows" -> SelectorCatch(ErrStep)
         [] Behaviour = "hidden" -> LoopAt(hcat, hidx + 1)
         [] OTHER -> /\ hpc' = "click"
                     /\ UNCHANGED <<hcat, hidx, hexc>>
    /\ UNCHANGED <<page, queried, clicks>>
    /\ UNCHANGED runnerVars
    /\ UNCHANGED mainVars

\* await element.click()
Click ==
    /\ hpc = "click"
    /\ clicks' = Append(clicks, [cat |-> hcat, idx |-> hidx,
                                 ok |-> Behaviour # "clickThrows"])
    /\ IF Behaviour = "clickThrows"
       THEN SelectorCatch(ErrStep)
       ELSE /\ hpc' = "settle"
            /\ UNCHANGED <<hcat, hidx, hexc>>
    /\ UNCHANGED <<page, queried>>
    /\ UNCHANGED runnerVars
    /\ UNCHANGED mainVars

\* await page.waitForTimeout(1000); return
Settle ==
    /\ hpc = "settle"
    /\ IF Behaviour = "settleThrows"
       THEN SelectorCatch(ErrStep)
       ELSE PhaseReturn
    /\ UNCHANGED <<page, queried, clicks>>
    /\ UNCHANGED runnerVars
    /\ UNCHANGED mainVars

Resolver == WaitForLoadState \/ Locator \/ IsVisible \/ Click \/ Settle

Runner ==
    \/ LaunchChrome \/ RunLighthouse
    \/ EnsureDeviceDir \/ WriteHtmlReport \/ WriteJsonReport
    \/ LaunchBrowser \/ NewContext \/ NewPage
    \/ Goto \/ CallDisclaimers \/ AfterDisclaimers \/ Screenshot
    \/ PageClose \/ ContextClose \/ BrowserClose
    \/ KillChrome

----------------------------------------------------------------------------
(* main *)

\* an error raised at step `at` leaves the job loop's enclosing block.
\* main: the catch of the outer try, console.error(error), process.exit(1);
\* the audit test: the error leaves the test function and the test fails
Fatal(at) ==
    /\ fatalErr' = <<at>>
    /\ IF mode = "main"
       THEN /\ pc' = "exit1"
            /\ exitCode' = 1
       ELSE /\ pc' = "testFailed"
            /\ UNCHANGED exitCode

\* an 'error' event on a stream without an 'error' listener is thrown as an
\* uncaught exception: the process ends with status 1, nothing is caught
Uncaught ==
    /\ pc' = "crashed"
    /\ exitCode' = 1
    /\ UNCHANGED fatalErr

\* const urls = await readUrlsFromCSV(csvPath): the promise resolves, or it
\* rejects (the parser stream emits 'error'), or the file stream emits 'error'
ReadCsv ==
    /\ pc = "readCsv"
    /\ \/ /\ pc' = "ensureOut"
          /\ UNCHANGED <<exitCode, fatalErr>>
       \/ Fatal("readCsv")
       \/ Uncaught
    /\ UNCHANGED <<aloneVars, outcomes, summary, mode, emitted, urls, i, dev, results, jobs>>
    /\ UNCHANGED runnerVars
    /\ UNCHANGED resolverVars

\* await fs.ensureDir(outputDir); const results = []
EnsureOutputDir ==
    /\ pc = "ensureOut"
    /\ \/ /\ pc' = "loop"
          /\ UNCHANGED <<exitCode, fatalErr>>
       \/ Fatal("ensureOut")
    /\ UNCHANGED <<aloneVars, outcomes, summary, mode, emitted, urls, i, dev, results, jobs>>
    /\ UNCHANGED runnerVars
    /\ UNCHANGED resolverVars

\* runLighthouseAudit(url, device, outputDir) is called
CallRunner(device) ==
    /\ dev' = device
    /\ jobs' = Append(jobs, <<i, device>>)
    /\ pc' = "await"
    /\ rpc' = "launch"
    /\ UNCHANGED <<exc, ret, lhr, fault, written, chromeOpen, browserOpen,
                   contextOpen, pageOpen, deviceDir, calls, leaked, clock, config, contextOptions>>
    /\ UNCHANGED resolverVars

\* for (const urlData of urls): next URL, desktop first; or leave the loop
LoopHead ==
    /\ pc = "loop"
    /\ IF i <= Len(urls)
       THEN CallRunner("desktop")
       ELSE /\ pc' = "writeLedger"
            /\ UNCHANGED <<dev, jobs>>
            /\ UNCHANGED runnerVars
            /\ UNCHANGED resolverVars
    /\ UNCHANGED resolverVars
    /\ UNCHANGED <<aloneVars, outcomes, summary, mode, emitted, urls, i, results, exitCode, fatalErr>>

\* mutant: the mobile job is started without awaiting the desktop job
StartMobile_NoAwait ==
    /\ pc \in {"mobile", "await"}
    /\ dev = "desktop"
    /\ CallRunner("mobile")
    /\ UNCHANGED <<aloneVars, outcomes, summary, mode, emitted, urls, i, results, exitCode, fatalErr>>

\* the second try of the loop body
StartMobile ==
    /\ pc = "mobile"
    /\ CallRunner("mobile")
    /\ UNCHANGED <<aloneVars, outcomes, summary, mode, emitted, urls, i, results, exitCode, fatalErr>>

\* mutant: the loop body ends after the first try/catch
AfterJob_SkipMobile ==
    /\ pc' = "loop"
    /\ i'  = i + 1

\* mutant: the memory-managed test leaves the loop body in its first delay
AfterJob_DelaySkipsMobile ==
    /\ pc' = IF mode = "testManaged" THEN "loop"
             ELSE IF dev = "desktop" THEN "mobile" ELSE "loop"
    /\ i'  = IF mode = "testManaged" \/ dev = "mobile" THEN i + 1 ELSE i

\* where the orchestrator continues after the try/catch of a job: with the
\* second try or the next URL, in the memory-managed test after a delay
AfterJob ==
    /\ pc' = IF mode = "testManaged" THEN "delay"
             ELSE IF dev = "desktop" THEN "mobile" ELSE "loop"
    /\ i'  = IF dev = "desktop" \/ mode = "testManaged" THEN i ELSE i + 1

\* the frame of runLighthouseAudit is gone: its locals are dropped, and the
\* handles it did not close stay open
EndJob ==
    /\ rpc' = "idle"
    /\ exc' = <<>>
    /\ ret' = <<>>
    /\ lhr' = <<>>
    /\ fault' = <<>>
    /\ written' = {}
    /\ leaked' = leaked \cup (IF browserOpen THEN {"browser"} ELSE {})
                        \cup (IF contextOpen THEN {"context"} ELSE {})
                        \cup (IF pageOpen THEN {"page"} ELSE {})
    /\ browserOpen' = FALSE
    /\ contextOpen' = FALSE
    /\ pageOpen' = FALSE
    /\ deviceDir' = <<>>
    /\ calls' = <<>>
    /\ config' = <<>>
    /\ contextOptions' = <<>>
    /\ UNCHANGED <<chromeOpen, clock>>
    /\ page' = NoPage
    /\ hcat' = "consent"
    /\ hidx' = 1
    /\ hexc' = <<>>
    /\ queried' = <<>>
    /\ clicks' = <<>>
    /\ UNCHANGED hpc

\* try branch: results.push({url, description, device, ...result})
JobReturned ==
    /\ pc = "await"
    /\ rpc = "returned"
    /\ results' = Append(results, SuccessEntry(urls[i], dev, ret[1]))
    /\ outcomes' = Append(outcomes, [kind |-> "returned", value |-> ret[1]])
    /\ AfterJob
    /\ EndJob
    /\ UNCHANGED <<aloneVars, summary, mode, emitted, urls, dev, exitCode, fatalErr, jobs>>

\* mutant: the per-job catch only logs
JobThrown_NoEntry ==
    /\ pc = "await"
    /\ rpc = "thrown"
    /\ outcomes' = Append(outcomes, [kind |-> "thrown", value |-> exc[1]])
    /\ AfterJob
    /\ EndJob
    /\ UNCHANGED <<aloneVars, summary, mode, emitted, urls, results, dev, jobs, exitCode, fatalErr>>

\* mutant: the per-job catch rethrows
JobThrown_Rethrow ==
    /\ pc = "await"
    /\ rpc = "thrown"
    /\ outcomes' = Append(outcomes, [kind |-> "thrown", value |-> exc[1]])
    /\ Fatal("jobCatch")
    /\ EndJob
    /\ UNCHANGED <<aloneVars, summary, mode, emitted, urls, i, results, dev, jobs>>

\* catch (error): console.error(error.message); results.push({..., error: error.message})
JobThrown ==
    /\ pc = "await"
    /\ rpc = "thrown"
    /\ IF exc[1].kind = "Nullish"
       THEN \* reading .message of null/undefined throws inside the catch block
            /\ Fatal("jobCatch")
            /\ UNCHANGED <<i, results>>
       ELSE /\ results' = Append(results, FailureEntry(urls[i], dev, exc[1]))
            /\ AfterJob
            /\ UNCHANGED <<exitCode, fatalErr>>
    /\ outcomes' = Append(outcomes, [kind |-> "thrown", value |-> exc[1]])
    /\ EndJob
    /\ UNCHANGED <<aloneVars, summary, mode, emitted, urls, dev, jobs>>

\* mutant: an error of the ledger write is logged and the batch goes on
WriteLedger_Continue ==
    /\ pc = "writeLedger"
    /\ \/ /\ emitted' = emitted \cup {"audit-summary.json"}
          /\ UNCHANGED fatalErr
       \/ /\ fatalErr' = <<"writeLedger">>
          /\ UNCHANGED emitted
    /\ pc' = "genSummary"
    /\ UNCHANGED <<aloneVars, outcomes, summary, mode, exitCode, urls, i, dev, results, jobs>>
    /\ UNCHANGED runnerVars
    /\ UNCHANGED resolverVars

\* await fs.writeJson(summaryPath, results, {spaces: 2})
WriteLedger ==
    /\ pc = "writeLedger"
    /\ \/ /\ emitted' = emitted \cup {"audit-summary.json"}
          /\ pc' = "genSummary"
          /\ UNCHANGED <<exitCode, fatalErr>>
       \/ /\ Fatal("writeLedger")
          /\ UNCHANGED emitted
    /\ UNCHANGED <<aloneVars, outcomes, summary, mode, urls, i, dev, results, jobs>>
    /\ UNCHANGED runnerVars
    /\ UNCHANGED resolverVars

\* the templates of generateHTMLSummary, the final summary of main and the
\* final log of the audit test read r.scores.performance of every entry whose
\* error is falsy
RenderThrows(rs) ==
    \E k \in 1..Len(rs) : ~Truthy(rs[k]) /\ "scores" \notin DOMAIN rs[k]

\* a JavaScript number n / 2 for an integer n: its integer part, and whether
\* a fraction of one half remains
Halved(n) == [whole |-> n \div 2, half |-> n % 2 = 1]

\* number of entries whose error is truthy
RECURSIVE CountTruthy(_)
CountTruthy(rs) ==
    IF rs = <<>> THEN 0
    ELSE (IF Truthy(Head(rs)) THEN 1 ELSE 0) + CountTruthy(Tail(rs))

\* the figures of the stat cards of the template: results.length / 2,
\* results.filter(r => !r.error).length, results.filter(r => r.error).length
\* mutant: every entry is counted as successful
SummaryFigures_AllSuccessful(rs) ==
    [urlsTested |-> Halved(Len(rs)),
     successful |-> Len(rs),
     failed     |-> CountTruthy(rs),
     averaged   |-> 1..Len(rs),
     avgPerformance |-> 0]

\* the entries that results.filter(r => !r.error) keeps
Averaged(rs) == { k \in 1..Len(rs) : ~Truthy(rs[k]) }

\* reduce((sum, r) => sum + r.scores[c], 0) over the entries kept
RECURSIVE SumScores(_, _)
SumScores(rs, c) ==
    IF rs = <<>> THEN 0
    ELSE (IF Truthy(Head(rs)) THEN 0 ELSE Head(rs).scores[c]) + SumScores(Tail(rs), c)

\* Math.round(sum / n) of two integers, n > 0
RoundedMean(sum, n) == (2 * sum + n) \div (2 * n)

\* the figures of the stat cards of the template: results.length / 2,
\* results.filter(r => !r.error).length, results.filter(r => r.error).length
\* and the average performance
SummaryFigures(rs) ==
    [urlsTested |-> Halved(Len(rs)),
     successful |-> Len(rs) - CountTruthy(rs),
     failed     |-> CountTruthy(rs),
     averaged   |-> Averaged(rs),
     avgPerformance |-> IF Averaged(rs) # {}
                        THEN RoundedMean(SumScores(rs, "performance"), Cardinality(Averaged(rs)))
                        ELSE 0]

\* the figures of the final summary of main: successfulAudits.length,
\* failedAudits.length, and avgScores when there is a successful audit
FinalFigures(rs) ==
    [successful |-> Cardinality(Averaged(rs)),
     failed     |-> CountTruthy(rs),
     averaged   |-> Averaged(rs),
     avgScores  |-> IF Averaged(rs) # {}
                    THEN <<[c \in {"performance", "accessibility", "bestPractices", "seo"} |->
                              RoundedMean(SumScores(rs, c), Cardinality(Averaged(rs)))]>>
                    ELSE <<>>]

\* await generateHTMLSummary(results, outputDir): the template is evaluated,
\* then fs.writeFile writes audit-summary.html
GenerateHTMLSummary ==
    /\ pc = "genSummary"
    /\ IF RenderThrows(results)
       THEN /\ Fatal("renderSummary")
            /\ UNCHANGED <<emitted, summary>>
       ELSE /\ summary' = <<SummaryFigures(results)>>
            /\ \/ /\ emitted' = emitted \cup {"audit-summary.html"}
                  /\ pc' = IF mode = "main" THEN "final" ELSE "expect"
                  /\ UNCHANGED <<exitCode, fatalErr>>
               \/ /\ Fatal("writeSummary")
                  /\ UNCHANGED emitted
    /\ UNCHANGED <<aloneVars, outcomes, mode, urls, i, dev, results, jobs>>
    /\ UNCHANGED runnerVars
    /\ UNCHANGED resolverVars

\* the audit test: expect(results.length).toBeGreaterThan(0)
Expect ==
    /\ pc = "expect"
    /\ IF Len(results) > 0
       THEN /\ pc' = "final"
            /\ UNCHANGED <<exitCode, fatalErr>>
       ELSE Fatal("expect")
    /\ UNCHANGED <<aloneVars, outcomes, summary, mode, emitted, urls, i, dev, results, jobs>>
    /\ UNCHANGED runnerVars
    /\ UNCHANGED resolverVars

\* main: the final summary; the audit test: results.forEach(... console.log)
FinalSummary ==
    /\ pc = "final"
    /\ IF RenderThrows(results)
       THEN /\ Fatal("finalSummary")
            /\ UNCHANGED summary
       ELSE /\ pc' = IF mode = "main" THEN "done" ELSE "testPassed"
            /\ summary' = IF mode = "main" THEN Append(summary, FinalFigures(results))
                          ELSE summary
            /\ UNCHANGED <<exitCode, fatalErr>>
    /\ UNCHANGED <<aloneVars, outcomes, mode, emitted, urls, i, dev, results, jobs>>
    /\ UNCHANGED runnerVars
    /\ UNCHANGED resolverVars

\* await new Promise(resolve => setTimeout(resolve, 2000)) after the desktop
\* job, and with 3000 after the mobile job (memory-managed test)
Delay ==
    /\ pc = "delay"
    /\ pc' = IF dev = "desktop" THEN "mobile" ELSE "loop"
    /\ i'  = IF dev = "desktop" THEN i ELSE i + 1
    /\ UNCHANGED <<aloneVars, outcomes, summary, mode, emitted, urls, dev, results, exitCode, fatalErr, jobs>>
    /\ UNCHANGED runnerVars
    /\ UNCHANGED resolverVars

Main ==
    \/ ReadCsv \/ EnsureOutputDir \/ LoopHead \/ StartMobile
    \/ JobReturned \/ JobThrown
    \/ WriteLedger \/ GenerateHTMLSummary \/ FinalSummary

Next == Main \/ Runner \/ Resolver

Spec == Init /\ [][Next]_vars

----------------------------------------------------------------------------
(* handleDisclaimers called on its own, on any page of AllPages *)

InitResolver ==
    /\ urls = <<>>
    /\ pc = "resolver"
    /\ i = 1
    /\ dev = "desktop"
    /\ results = <<>>
    /\ exitCode = 0
    /\ mode = "main"
    /\ fatalErr = <<>>
    /\ emitted = {}
    /\ summary = <<>>
    /\ jobs = <<>>
    /\ outcomes = <<>>
    /\ rpc = "idle"
    /\ exc = <<>>
    /\ ret = <<>>
    /\ lhr = <<>>
    /\ fault = <<>>
    /\ written = {}
    /\ chromeOpen = 0
    /\ browserOpen = FALSE
    /\ contextOpen = FALSE
    /\ pageOpen = TRUE
    /\ deviceDir = <<>>
    /\ calls = <<>>
    /\ leaked = {}
    /\ clock = 0
    /\ config = <<>>
    /\ contextOptions = <<>>
    /\ page \in AllPages
    /\ hpc = "waitLoad"
    /\ hcat = "consent"
    /\ hidx = 1
    /\ hexc = <<>>
    /\ queried = <<>>
    /\ clicks = <<>>
    /\ hret = <<>>
    /\ visited = <<>>
    /\ logged = <<>>
    /\ csvFile = NoFile
    /\ csvPos = 0
    /\ csvOut = <<>>
    /\ csvState = "idle"

NextResolver == Resolver

SpecResolver == InitResolver /\ [][NextResolver]_vars

\* every page primitive eventually returns or throws: an awaited step of the
\* invocation that can be taken is taken
SpecResolverLive == SpecResolver /\ WF_vars(NextResolver)

----------------------------------------------------------------------------
(* the audit test of the test suites: beforeAll reads the list, then the test
   'should run Lighthouse audits for all URLs on both devices' runs the same
   job loop as main; the timers and gc calls of the memory-managed suite
   change no state of the batch *)

InitTest ==
    /\ urls \in InputLists
    /\ pc = "readCsv"
    /\ i = 1
    /\ dev = "desktop"
    /\ results = <<>>
    /\ exitCode = 0
    /\ mode = "test"
    /\ fatalErr = <<>>
    /\ emitted = {}
    /\ summary = <<>>
    /\ jobs = <<>>
    /\ outcomes = <<>>
    /\ rpc = "idle"
    /\ exc = <<>>
    /\ ret = <<>>
    /\ lhr = <<>>
    /\ fault = <<>>
    /\ written = {}
    /\ chromeOpen = 0
    /\ browserOpen = FALSE
    /\ contextOpen = FALSE
    /\ pageOpen = FALSE
    /\ deviceDir = <<>>
    /\ calls = <<>>
    /\ leaked = {}
    /\ clock = 0
    /\ config = <<>>
    /\ contextOptions = <<>>
    /\ page = NoPage
    /\ hpc = "idle"
    /\ hcat = "consent"
    /\ hidx = 1
    /\ hexc = <<>>
    /\ queried = <<>>
    /\ clicks = <<>>
    /\ hret = <<>>
    /\ visited = <<>>
    /\ logged = <<>>
    /\ csvFile = NoFile
    /\ csvPos = 0
    /\ csvOut = <<>>
    /\ csvState = "idle"

NextTest == Main \/ Expect \/ Runner \/ Resolver

SpecTest == InitTest /\ [][NextTest]_vars

\* the three orchestrators side by side: main, the audit test, and the audit
\* test of the memory-managed suite with its delays, each over every way the
\* runLighthouseAudit calls can settle
InitVariants ==
    /\ urls \in InputLists
    /\ pc = "readCsv"
    /\ i = 1
    /\ dev = "desktop"
    /\ results = <<>>
    /\ exitCode = 0
    /\ mode \in {"main", "test", "testManaged"}
    /\ fatalErr = <<>>
    /\ emitted = {}
    /\ summary = <<>>
    /\ jobs = <<>>
    /\ outcomes = <<>>
    /\ rpc = "idle"
    /\ exc = <<>>
    /\ ret = <<>>
    /\ lhr = <<>>
    /\ fault = <<>>
    /\ written = {}
    /\ chromeOpen = 0
    /\ browserOpen = FALSE
    /\ contextOpen = FALSE
    /\ pageOpen = FALSE
    /\ deviceDir = <<>>
    /\ calls = <<>>
    /\ leaked = {}
    /\ clock = 0
    /\ config = <<>>
    /\ contextOptions = <<>>
    /\ page = NoPage
    /\ hpc = "idle"
    /\ hcat = "consent"
    /\ hidx = 1
    /\ hexc = <<>>
    /\ queried = <<>>
    /\ clicks = <<>>
    /\ hret = <<>>
    /\ visited = <<>>
    /\ logged = <<>>
    /\ csvFile = NoFile
    /\ csvPos = 0
    /\ csvOut = <<>>
    /\ csvState = "idle"

NextVariants == Main \/ Expect \/ Delay \/ Runner \/ Resolver

SpecVariants == InitVariants /\ [][NextVariants]_vars

----------------------------------------------------------------------------
(* readUrlsFromCSV on its own.  A row is the object csv-parser hands to the
   'data' listener: a column that the line does not have is an absent key. *)

\* the characters String.prototype.trim strips: WhiteSpace and LineTerminator
\* of ECMAScript.  A character a TLA+ string cannot hold is written as its
\* code point.
Whitespace ==
    { "\t", "\n", "U+000B", "\f", "\r", " ", "U+00A0", "U+1680",
      "U+2000", "U+2001", "U+2002", "U+2003", "U+2004", "U+2005", "U+2006",
      "U+2007", "U+2008", "U+2009", "U+200A",
      "U+2028", "U+2029", "U+202F", "U+205F", "U+3000", "U+FEFF" }

RECURSIVE TrimStart(_)
TrimStart(str) ==
    IF str # <<>> /\ Head(str) \in Whitespace THEN TrimStart(Tail(str)) ELSE str

RECURSIVE TrimEnd(_)
TrimEnd(str) ==
    IF str # <<>> /\ str[Len(str)] \in Whitespace
    THEN TrimEnd(SubSeq(str, 1, Len(str) - 1))
    ELSE str

\* String.prototype.trim
Trim(str) == TrimEnd(TrimStart(str))

UrlCells  == { <<>>, <<" ">>, <<"\n">>, <<" ", "u", "\t">>, <<"u", "\r">>, <<"u">> }
DescCells == { "", " ", "D" }

Rows ==
    UNION { [url : UrlCells, description : DescCells],
            [url : UrlCells],
            [description : DescCells],
            {<<>>} }

RowLists == UNION { [1..n -> Rows] : n \in 0..MaxRows }

\* fails "never": the file is read to its end; "file": the file stream emits
\* 'error' (a missing file: at once, before any row); "parser": the parser
\* stream emits 'error'
CsvFiles == [rows : RowLists, fails : {"never", "file", "parser"}]

\* data.url && data.url.trim()
UrlTruthy(data) ==
    /\ "url" \in DOMAIN data
    /\ data.url # <<>>
    /\ Trim(data.url) # <<>>

\* data.description || 'No description'
DescriptionOf(data) ==
    IF "description" \in DOMAIN data /\ data.description # ""
    THEN data.description
    ELSE "No description"

\* mutant: the url is pushed as read
OnData_NoTrim ==
    /\ csvState = "reading"
    /\ csvPos < Len(csvFile.rows)
    /\ LET data == csvFile.rows[csvPos + 1] IN
          csvOut' = IF UrlTruthy(data)
                    THEN Append(csvOut, [url |-> data.url,
                                         description |-> DescriptionOf(data)])
                    ELSE csvOut
    /\ csvPos' = csvPos + 1
    /\ UNCHANGED <<csvFile, csvState, hret>>
    /\ UNCHANGED <<urls, pc, i, dev, results, exitCode, mode, fatalErr, emitted, summary, jobs, outcomes,
                   visited, logged>>
    /\ UNCHANGED runnerVars
    /\ UNCHANGED resolverVars

\* .on('data', (data) => { if (...) results.push({...}) })
OnData ==
    /\ csvState = "reading"
    /\ csvPos < Len(csvFile.rows)
    /\ LET data == csvFile.rows[csvPos + 1] IN
          csvOut' = IF UrlTruthy(data)
                    THEN Append(csvOut, [url |-> Trim(data.url),
                                         description |-> DescriptionOf(data)])
                    ELSE csvOut
    /\ csvPos' = csvPos + 1
    /\ UNCHANGED <<csvFile, csvState, hret>>
    /\ UNCHANGED <<urls, pc, i, dev, results, exitCode, mode, fatalErr, emitted, summary, jobs, outcomes,
                   visited, logged>>
    /\ UNCHANGED runnerVars
    /\ UNCHANGED resolverVars

\* the stream settles the promise of readUrlsFromCSV, or ends the process
CsvSettle(state) ==
    /\ csvState = "reading"
    /\ csvState' = state
    /\ UNCHANGED <<csvFile, csvPos, csvOut, hret>>
    /\ UNCHANGED <<urls, pc, i, dev, results, exitCode, mode, fatalErr, emitted, summary, jobs, outcomes,
                   visited, logged>>
    /\ UNCHANGED runnerVars
    /\ UNCHANGED resolverVars

\* .on('end', () => { console.log(...); resolve(results) })
OnEnd ==
    /\ csvFile.fails = "never"
    /\ csvPos = Len(csvFile.rows)
    /\ CsvSettle("resolved")

\* .on('error', (error) => { reject(error) }): the listener is on the parser
OnError ==
    /\ csvFile.fails = "parser"
    /\ CsvSettle("rejected")

\* 'error' on the stream of fs.createReadStream, which has no listener
OnFileError ==
    /\ csvFile.fails = "file"
    /\ CsvSettle("uncaught")

\* main, the runner and the resolver are not running
BatchIdle ==
    /\ urls = <<>>
    /\ i = 1
    /\ dev = "desktop"
    /\ results = <<>>
    /\ exitCode = 0
    /\ mode = "main"
    /\ fatalErr = <<>>
    /\ emitted = {}
    /\ summary = <<>>
    /\ jobs = <<>>
    /\ outcomes = <<>>
    /\ rpc = "idle"
    /\ exc = <<>>
    /\ ret = <<>>
    /\ lhr = <<>>
    /\ fault = <<>>
    /\ written = {}
    /\ chromeOpen = 0
    /\ browserOpen = FALSE
    /\ contextOpen = FALSE
    /\ deviceDir = <<>>
    /\ calls = <<>>
    /\ leaked = {}
    /\ clock = 0
    /\ config = <<>>
    /\ contextOptions = <<>>
    /\ hexc = <<>>
    /\ queried = <<>>
    /\ clicks = <<>>
    /\ hret = <<>>
    /\ visited = <<>>
    /\ logged = <<>>

InitCsv ==
    /\ BatchIdle
    /\ pc = "csv"
    /\ pageOpen = FALSE
    /\ page = NoPage
    /\ hpc = "idle"
    /\ hcat = "consent"
    /\ hidx = 1
    /\ csvFile \in CsvFiles
    /\ csvPos = 0
    /\ csvOut = <<>>
    /\ csvState = "reading"

NextCsv == OnData \/ OnEnd \/ OnError \/ OnFileError

SpecCsv == InitCsv /\ [][NextCsv]_vars

----------------------------------------------------------------------------
(* hasDisclaimers on its own *)

IndicatorBehaviours == {"hidden", "visible", "locatorThrows", "isVisibleThrows"}

IndicatorPages == [indicator : [1..IndicatorCount -> IndicatorBehaviours]]

\* the for-of loop moves to indicator k, or is over: return false
HasLoopAt(k) ==
    IF k <= Len(page.indicator)
    THEN /\ hidx' = k
         /\ hpc' = "hasLocator"
         /\ UNCHANGED hret
    ELSE /\ hret' = <<FALSE>>
         /\ hpc' = "done"
         /\ UNCHANGED hidx

\* const element = await page.locator(selector).first()
HasLocator ==
    /\ hpc = "hasLocator"
    /\ queried' = Append(queried, <<hcat, hidx>>)
    /\ IF Behaviour = "locatorThrows"
       THEN HasLoopAt(hidx + 1)
       ELSE /\ hpc' = "hasIsVisible"
            /\ UNCHANGED <<hidx, hret>>
    /\ UNCHANGED <<page, hcat, hexc, clicks, csvVars>>
    /\ UNCHANGED <<urls, pc, i, dev, results, exitCode, mode, fatalErr, emitted, summary, jobs, outcomes,
                   visited, logged>>
    /\ UNCHANGED runnerVars

\* mutant: the indicator found visible is clicked
HasIsVisible_Clicks ==
    /\ hpc = "hasIsVisible"
    /\ IF Behaviour = "visible"
       THEN /\ hret' = <<TRUE>>
            /\ hpc' = "done"
            /\ clicks' = Append(clicks, [cat |-> hcat, idx |-> hidx, ok |-> TRUE])
            /\ UNCHANGED hidx
       ELSE /\ HasLoopAt(hidx + 1)
            /\ UNCHANGED clicks
    /\ UNCHANGED <<page, hcat, hexc, queried, csvVars>>
    /\ UNCHANGED <<urls, pc, i, dev, results, exitCode, mode, fatalErr, emitted, summary, jobs, outcomes,
                   visited, logged>>
    /\ UNCHANGED runnerVars

\* if (await element.isVisible({timeout: 1000})) return true; a throw is
\* caught by the catch inside the loop
HasIsVisible ==
    /\ hpc = "hasIsVisible"
    /\ IF Behaviour = "visible"
       THEN /\ hret' = <<TRUE>>
            /\ hpc' = "done"
            /\ UNCHANGED hidx
       ELSE HasLoopAt(hidx + 1)
    /\ UNCHANGED <<page, hcat, hexc, queried, clicks, csvVars>>
    /\ UNCHANGED <<urls, pc, i, dev, results, exitCode, mode, fatalErr, emitted, summary, jobs, outcomes,
                   visited, logged>>
    /\ UNCHANGED runnerVars

InitHas ==
    /\ BatchIdle
    /\ pc = "hasDisclaimers"
    /\ pageOpen = TRUE
    /\ page \in IndicatorPages
    /\ hpc = "hasLocator"
    /\ hcat = "indicator"
    /\ hidx = 1
    /\ csvFile = NoFile
    /\ csvPos = 0
    /\ csvOut = <<>>
    /\ csvState = "idle"

NextHas == HasLocator \/ HasIsVisible

SpecHas == InitHas /\ [][NextHas]_vars

\* ---------------------------------------------------------------------------
\* The directory step of runLighthouseAudit alone, over every short URL
\* ---------------------------------------------------------------------------

\* characters of a URL: letters of both cases, a digit, and punctuation
UrlAlphabet == {"a", "Z", "7", ":", "/", ".", "_", "-"}

\* the non-empty URLs of at most MaxUrlLen characters (the reader drops rows
\* whose url is empty)
ShortUrls == UNION { [1..n -> UrlAlphabet] : n \in 1..MaxUrlLen }

\* readings of the clock before the job's own; the next reading can roll the
\* seconds field over (880) and the minutes field (7880)
ClockSamples == {2, 880, 7879}

\* the job of one device for a one-row list has launched Chrome and run the
\* audit; before a mobile job the desktop job has failed in the audit
InitDir ==
    /\ \E u \in ShortUrls : urls = <<[url |-> u, description |-> "A"]>>
    /\ dev \in {"desktop", "mobile"}
    /\ pc = "await"
    /\ i = 1
    /\ results = IF dev = "desktop" THEN <<>>
                 ELSE <<FailureEntry(urls[1], "desktop", ErrStep)>>
    /\ outcomes = IF dev = "desktop" THEN <<>>
                  ELSE <<[kind |-> "thrown", value |-> ErrStep]>>
    /\ jobs = IF dev = "desktop" THEN << <<1, "desktop">> >>
              ELSE << <<1, "desktop">>, <<1, "mobile">> >>
    /\ exitCode = 0
    /\ mode = "main"
    /\ fatalErr = <<>>
    /\ emitted = {}
    /\ summary = <<>>
    /\ rpc = "ensureDir"
    /\ exc = <<>>
    /\ ret = <<>>
    /\ lhr \in { <<l>> : l \in LhrSamples }
    /\ fault = <<>>
    /\ written = {}
    /\ chromeOpen = 1
    /\ browserOpen = FALSE
    /\ contextOpen = FALSE
    /\ pageOpen = FALSE
    /\ deviceDir = <<>>
    /\ calls = <<>>
    /\ leaked = {}
    /\ clock \in ClockSamples
    /\ config = <<Config(dev)>>
    /\ contextOptions = <<>>
    /\ page = NoPage
    /\ hpc = "idle"
    /\ hcat = "consent"
    /\ hidx = 1
    /\ hexc = <<>>
    /\ queried = <<>>
    /\ clicks = <<>>
    /\ hret = <<>>
    /\ visited = <<>>
    /\ logged = <<>>
    /\ csvFile = NoFile
    /\ csvPos = 0
    /\ csvOut = <<>>
    /\ csvState = "idle"

NextDir == EnsureDeviceDir

SpecDir == InitDir /\ [][NextDir]_vars

\* ---------------------------------------------------------------------------
\* The return statement of runLighthouseAudit alone, over a grid of scores
\* ---------------------------------------------------------------------------

\* engine scores in thousandths: 0.000, 0.001, ..., 1.000
ScoreGrid == 0..1000

\* the category scores of one audit: two neighbours of the grid, the
\* complement and the top score
LhrGrid ==
    { [performance   |-> s,
       accessibility |-> IF s < 1000 THEN s + 1 ELSE s,
       bestPractices |-> 1000 - s,
       seo           |-> 1000] : s \in ScoreGrid }

\* the desktop job of a one-row list has written its reports, taken the
\* screenshot and closed the page and the context
InitRound ==
    /\ urls = <<UrlAt(1)>>
    /\ dev = "desktop"
    /\ pc = "await"
    /\ i = 1
    /\ results = <<>>
    /\ jobs = << <<1, "desktop">> >>
    /\ outcomes = <<>>
    /\ exitCode = 0
    /\ mode = "main"
    /\ fatalErr = <<>>
    /\ emitted = {}
    /\ summary = <<>>
    /\ rpc = "browserClose"
    /\ exc = <<>>
    /\ ret = <<>>
    /\ lhr \in { <<l>> : l \in LhrGrid }
    /\ fault = <<>>
    /\ clock = 1
    /\ config = <<Config(dev)>>
    /\ contextOptions = <<ContextOptions(dev)>>
    /\ deviceDir = DeviceDir(urls[1].url, dev, ToISOString(clock))
    /\ written = {ReportPath(deviceDir), JsonPath(deviceDir), ScreenshotPath(deviceDir)}
    /\ chromeOpen = 1
    /\ browserOpen = TRUE
    /\ contextOpen = FALSE
    /\ pageOpen = FALSE
    /\ calls = <<"goto", "handleDisclaimers", "screenshot">>
    /\ leaked = {}
    /\ page = [load |-> "timeout",
               consent |-> [k \in 1..ConsentCount |-> "visible"],
               cookie |-> [k \in 1..CookieCount |-> "visible"]]
    /\ hpc = "idle"
    /\ hcat = "consent"
    /\ hidx = 1
    /\ hexc = <<>>
    /\ queried = <<>>
    /\ clicks = <<>>
    /\ hret = <<>>
    /\ visited = <<>>
    /\ logged = <<>>
    /\ csvFile = NoFile
    /\ csvPos = 0
    /\ csvOut = <<>>
    /\ csvState = "idle"

NextRound == BrowserClose \/ KillChrome

SpecRound == InitRound /\ [][NextRound]_vars

\* ---------------------------------------------------------------------------
\* The selector catalogs of the disclaimer handler, and hasDisclaimers over
\* the pages that show one element
\* ---------------------------------------------------------------------------

\* A selector is the sequence of its space-separated parts: a part selects
\* inside the element that the parts before it select.

\* consentSelectors of handleConsentDisclaimer
ConsentSelectors ==
    << <<"text=\"I am a Healthcare Professional\"">>,
       <<"text=\"I am a Healthcare Professional\"", ">>", "button">>,
       <<"text=\"I am a Healthcare Professional\"", ">>", "a">>,
       <<"button:has-text(\"I am a Healthcare Professional\")">>,
       <<"button:has-text(\"Healthcare Professional\")">>,
       <<"button:has-text(\"Healthcare\")">>,
       <<"a:has-text(\"I am a Healthcare Professional\")">>,
       <<"a:has-text(\"Healthcare Professional\")">>,
       <<"a:has-text(\"Healthcare\")">>,
       <<"[data-testid*=\"consent\"]", "button:has-text(\"Healthcare Professional\")">>,
       <<"[data-testid*=\"consent\"]", "button:has-text(\"Healthcare\")">>,
       <<"[data-testid*=\"healthcare\"]", "button">>,
       <<".consent-button:has-text(\"Healthcare Professional\")">>,
       <<".consent-button:has-text(\"Healthcare\")">>,
       <<".healthcare-button">>,
       <<"#consent-button:has-text(\"Healthcare Professional\")">>,
       <<"#consent-button:has-text(\"Healthcare\")">>,
       <<"#healthcare-button">>,
       <<"[role=\"button\"]:has-text(\"Healthcare Professional\")">>,
       <<"[role=\"button\"]:has-text(\"Healthcare\")">>,
       <<"[class*=\"consent\"]", "button:has-text(\"Healthcare\")">>,
       <<"[class*=\"healthcare\"]", "button">>,
       <<"[id*=\"consent\"]", "button:has-text(\"Healthcare\")">>,
       <<"[id*=\"healthcare\"]", "button">> >>

\* cookieSelectors of handleCookieDisclaimer
CookieSelectors ==
    << <<"text=\"Ok\"">>,
       <<"text=\"OK\"">>,
       <<"text=\"Accept\"">>,
       <<"text=\"Accept All\"">>,
       <<"text=\"Accept All Cookies\"">>,
       <<"text=\"Accept Cookies\"">>,
       <<"text=\"I Accept\"">>,
       <<"text=\"Got it\"">>,
       <<"text=\"Close\"">>,
       <<"text=\"Continue\"">>,
       <<"text=\"Proceed\"">>,
       <<"text=\"Agree\"">>,
       <<"text=\"I Agree\"">>,
       <<"text=\"Allow\"">>,
       <<"text=\"Allow All\"">>,
       <<"button:has-text(\"Ok\")">>,
       <<"button:has-text(\"OK\")">>,
       <<"button:has-text(\"Accept\")">>,
       <<"button:has-text(\"Accept All\")">>,
       <<"button:has-text(\"Accept All Cookies\")">>,
       <<"button:has-text(\"Accept Cookies\")">>,
       <<"button:has-text(\"I Accept\")">>,
       <<"button:has-text(\"Got it\")">>,
       <<"button:has-text(\"Close\")">>,
       <<"button:has-text(\"Continue\")">>,
       <<"button:has-text(\"Proceed\")">>,
       <<"button:has-text(\"Agree\")">>,
       <<"button:has-text(\"I Agree\")">>,
       <<"button:has-text(\"Allow\")">>,
       <<"button:has-text(\"Allow All\")">>,
       <<"a:has-text(\"Ok\")">>,
       <<"a:has-text(\"OK\")">>,
       <<"a:has-text(\"Accept\")">>,
       <<"a:has-text(\"Accept All\")">>,
       <<"a:has-text(\"Accept All Cookies\")">>,
       <<"a:has-text(\"Accept Cookies\")">>,
       <<"a:has-text(\"I Accept\")">>,
       <<"a:has-text(\"Got it\")">>,
       <<"a:has-text(\"Close\")">>,
       <<"a:has-text(\"Continue\")">>,
       <<"a:has-text(\"Proceed\")">>,
       <<"a:has-text(\"Agree\")">>,
       <<"a:has-text(\"I Agree\")">>,
       <<"a:has-text(\"Allow\")">>,
       <<"a:has-text(\"Allow All\")">>,
       <<"[data-testid*=\"cookie\"]", "button:has-text(\"Ok\")">>,
       <<"[data-testid*=\"cookie\"]", "button:has-text(\"Accept\")">>,
       <<"[data-testid*=\"cookie\"]", "button:has-text(\"Accept All Cookies\")">>,
       <<"[data-testid*=\"cookie\"]", "button:has-text(\"Allow\")">>,
       <<"[data-testid*=\"consent\"]", "button:has-text(\"Ok\")">>,
       <<"[data-testid*=\"consent\"]", "button:has-text(\"Accept\")">>,
       <<"[data-testid*=\"consent\"]", "button:has-text(\"Accept All Cookies\")">>,
       <<"[data-testid*=\"consent\"]", "button:has-text(\"Allow\")">>,
       <<".cookie-button:has-text(\"Ok\")">>,
       <<".cookie-button:has-text(\"Accept\")">>,
       <<".cookie-button:has-text(\"Accept All Cookies\")">>,
       <<".cookie-button:has-text(\"Allow\")">>,
       <<".consent-button:has-text(\"Ok\")">>,
       <<".consent-button:has-text(\"Accept\")">>,
       <<".consent-button:has-text(\"Accept All Cookies\")">>,
       <<".consent-button:has-text(\"Allow\")">>,
       <<"#cookie-accept:has-text(\"Ok\")">>,
       <<"#cookie-accept:has-text(\"Accept\")">>,
       <<"#cookie-accept:has-text(\"Accept All Cookies\")">>,
       <<"#cookie-accept:has-text(\"Allow\")">>,
       <<"#consent-accept:has-text(\"Ok\")">>,
       <<"#consent-accept:has-text(\"Accept\")">>,
       <<"#consent-accept:has-text(\"Accept All Cookies\")">>,
       <<"#consent-accept:has-text(\"Allow\")">>,
       <<"[role=\"button\"]:has-text(\"Ok\")">>,
       <<"[role=\"button\"]:has-text(\"Accept\")">>,
       <<"[role=\"button\"]:has-text(\"Accept All Cookies\")">>,
       <<"[role=\"button\"]:has-text(\"Allow\")">>,
       <<"[class*=\"cookie\"]", "button:has-text(\"Ok\")">>,
       <<"[class*=\"cookie\"]", "button:has-text(\"Accept\")">>,
       <<"[class*=\"cookie\"]", "button:has-text(\"Accept All Cookies\")">>,
       <<"[class*=\"cookie\"]", "button:has-text(\"Allow\")">>,
       <<"[class*=\"consent\"]", "button:has-text(\"Ok\")">>,
       <<"[class*=\"consent\"]", "button:has-text(\"Accept\")">>,
       <<"[class*=\"consent\"]", "button:has-text(\"Accept All Cookies\")">>,
       <<"[class*=\"consent\"]", "button:has-text(\"Allow\")">>,
       <<"[id*=\"cookie\"]", "button:has-text(\"Ok\")">>,
       <<"[id*=\"cookie\"]", "button:has-text(\"Accept\")">>,
       <<"[id*=\"cookie\"]", "button:has-text(\"Accept All Cookies\")">>,
       <<"[id*=\"cookie\"]", "button:has-text(\"Allow\")">>,
       <<"[id*=\"consent\"]", "button:has-text(\"Ok\")">>,
       <<"[id*=\"consent\"]", "button:has-text(\"Accept\")">>,
       <<"[id*=\"consent\"]", "button:has-text(\"Accept All Cookies\")">>,
       <<"[id*=\"consent\"]", "button:has-text(\"Allow\")">> >>

\* disclaimerIndicators of hasDisclaimers
DisclaimerIndicators ==
    << <<"text=\"I am a Healthcare Professional\"">>,
       <<"text=\"Ok\"">>,
       <<"text=\"Accept\"">>,
       <<"text=\"Accept All\"">>,
       <<"text=\"Accept Cookies\"">>,
       <<"text=\"Got it\"">>,
       <<"text=\"Close\"">>,
       <<"[data-testid*=\"consent\"]">>,
       <<"[data-testid*=\"cookie\"]">>,
       <<".consent-dialog">>,
       <<".cookie-banner">>,
       <<".disclaimer">>,
       <<".modal">> >>

Range(f) == { f[k] : k \in DOMAIN f }

AllSelectors == Range(ConsentSelectors) \cup Range(CookieSelectors) \cup Range(DisclaimerIndicators)

\* selector s finds a visible element on the page whose one visible match is
\* that of selector shown: s is shown itself, or s selects an element that
\* contains the match
Finds(s, shown) == Len(s) <= Len(shown) /\ SubSeq(shown, 1, Len(s)) = s

VisibleOrHidden(s, shown) == IF Finds(s, shown) THEN "visible" ELSE "hidden"

\* the page on which the element of selector shown is visible and nothing else
PageShowing(shown) ==
    [load      |-> "idle",
     consent   |-> [k \in 1..Len(ConsentSelectors) |-> VisibleOrHidden(ConsentSelectors[k], shown)],
     cookie    |-> [k \in 1..Len(CookieSelectors) |-> VisibleOrHidden(CookieSelectors[k], shown)],
     indicator |-> [k \in 1..Len(DisclaimerIndicators) |-> VisibleOrHidden(DisclaimerIndicators[k], shown)]]

\* hasDisclaimers(page) is called on a page that shows one element
InitCatalog ==
    /\ BatchIdle
    /\ pc = "hasDisclaimers"
    /\ pageOpen = TRUE
    /\ \E shown \in AllSelectors : page = PageShowing(shown)
    /\ hpc = "hasLocator"
    /\ hcat = "indicator"
    /\ hidx = 1
    /\ csvFile = NoFile
    /\ csvPos = 0
    /\ csvOut = <<>>
    /\ csvState = "idle"

NextCatalog == HasLocator \/ HasIsVisible

SpecCatalog == InitCatalog /\ [][NextCatalog]_vars

\* ---------------------------------------------------------------------------
\* The page-load test of the two test suites
\* ---------------------------------------------------------------------------
(* mode "loadPlain" is the test of the suite without memory management, mode
   "loadManaged" that of the memory-managed suite.  The test runs with the
   page fixture on the list that beforeAll has read. *)

\* path.join(outputDir, 'browser-screenshots', description.replace(...) + '.png');
\* a description of the model is one character
BrowserScreenshot(description) ==
    <<OutputDir, "browser-screenshots", UrlSlug(<<description>>), ".png">>

\* the for-of loop goes on with the next URL
PlNextUrl ==
    /\ i' = i + 1
    /\ pc' = "plLoop"
    /\ UNCHANGED <<exitCode, fatalErr>>

\* mutant: the catch of the memory-managed suite rethrows as well
PlCatch_Rethrow(at, v) ==
    /\ logged' = Append(logged, [idx |-> i, at |-> at, message |-> v.message])
    /\ Fatal("pageLoad")
    /\ UNCHANGED i

\* catch (error): console.error(... error.message); the suite without memory
\* management then rethrows, the memory-managed suite continues
PlCatch(at, v) ==
    IF v.kind = "Nullish"
    THEN /\ Fatal("pageLoadCatch")
         /\ UNCHANGED <<i, logged>>
    ELSE /\ logged' = Append(logged, [idx |-> i, at |-> at, message |-> v.message])
         /\ IF mode = "loadPlain"
            THEN /\ Fatal("pageLoad")
                 /\ UNCHANGED i
            ELSE PlNextUrl

\* for (const urlData of urls)
PlLoopHead ==
    /\ pc = "plLoop"
    /\ pc' = IF i <= Len(urls) THEN "plGoto" ELSE "testPassed"
    /\ UNCHANGED <<urls, i, dev, results, exitCode, mode, fatalErr, emitted, summary, jobs, outcomes,
                   hret, csvVars, visited, logged>>
    /\ UNCHANGED runnerVars
    /\ UNCHANGED resolverVars

\* await page.goto(url, {waitUntil: 'networkidle', timeout})
PlGoto ==
    /\ pc = "plGoto"
    /\ visited' = Append(visited, i)
    /\ \/ /\ \E p \in SamplePages : page' = p
          /\ pc' = IF mode = "loadManaged" THEN "plDisclaimers" ELSE "plTitle"
          /\ UNCHANGED <<i, exitCode, fatalErr, logged>>
       \/ \E v \in StepThrows :
          /\ PlCatch("goto", v)
          /\ UNCHANGED page
    /\ UNCHANGED <<urls, dev, results, mode, emitted, summary, jobs, outcomes, hret, csvVars>>
    /\ UNCHANGED <<hpc, hcat, hidx, hexc, queried, clicks>>
    /\ UNCHANGED runnerVars

\* handleDisclaimers(page) is called (memory-managed suite only)
PlCallDisclaimers ==
    /\ pc = "plDisclaimers"
    /\ hpc = "idle"
    /\ hpc' = "waitLoad"
    /\ hcat' = "consent"
    /\ hidx' = 1
    /\ queried' = <<>>
    /\ clicks' = <<>>
    /\ pc' = "plAwait"
    /\ UNCHANGED <<page, hexc>>
    /\ UNCHANGED <<urls, i, dev, results, exitCode, mode, fatalErr, emitted, summary, jobs, outcomes,
                   hret, csvVars, visited, logged>>
    /\ UNCHANGED runnerVars

\* await handleDisclaimers(page): the promise settles
PlAfterDisclaimers ==
    /\ pc = "plAwait"
    /\ hpc \in {"done", "thrown"}
    /\ IF hpc = "done"
       THEN /\ pc' = "plTitle"
            /\ UNCHANGED <<i, exitCode, fatalErr, logged>>
       ELSE PlCatch("handleDisclaimers", hexc[1])
    /\ hpc' = "idle"
    /\ UNCHANGED <<page, hcat, hidx, hexc, queried, clicks>>
    /\ UNCHANGED <<urls, dev, results, mode, emitted, summary, jobs, outcomes, hret, csvVars, visited>>
    /\ UNCHANGED runnerVars

\* await expect(page).toHaveTitle(/./)
PlTitle ==
    /\ pc = "plTitle"
    /\ \/ /\ pc' = "plEnsureDir"
          /\ UNCHANGED <<i, exitCode, fatalErr, logged>>
       \/ \E v \in StepThrows : PlCatch("title", v)
    /\ UNCHANGED <<urls, dev, results, mode, emitted, summary, jobs, outcomes, hret, csvVars, visited>>
    /\ UNCHANGED runnerVars
    /\ UNCHANGED resolverVars

\* await fs.ensureDir(path.dirname(screenshotPath))
PlEnsureDir ==
    /\ pc = "plEnsureDir"
    /\ \/ /\ pc' = "plScreenshot"
          /\ UNCHANGED <<i, exitCode, fatalErr, logged>>
       \/ \E v \in StepThrows : PlCatch("ensureDir", v)
    /\ UNCHANGED <<urls, dev, results, mode, emitted, summary, jobs, outcomes, hret, csvVars, visited>>
    /\ UNCHANGED runnerVars
    /\ UNCHANGED resolverVars

\* await page.screenshot({path: screenshotPath, fullPage: true}); the two
\* console.log calls end the try block
PlScreenshot ==
    /\ pc = "plScreenshot"
    /\ \/ /\ emitted' = emitted \cup {BrowserScreenshot(urls[i].description)}
          /\ PlNextUrl
          /\ UNCHANGED logged
       \/ \E v \in StepThrows :
          /\ PlCatch("screenshot", v)
          /\ UNCHANGED emitted
    /\ UNCHANGED <<urls, dev, results, mode, summary, jobs, outcomes, hret, csvVars, visited>>
    /\ UNCHANGED runnerVars
    /\ UNCHANGED resolverVars

PageLoad ==
    \/ PlLoopHead
    \/ PlGoto
    \/ PlCallDisclaimers
    \/ PlAfterDisclaimers
    \/ PlTitle
    \/ PlEnsureDir
    \/ PlScreenshot

InitPageLoad ==
    /\ urls \in InputLists
    /\ mode \in {"loadPlain", "loadManaged"}
    /\ pc = "plLoop"
    /\ i = 1
    /\ dev = "desktop"
    /\ results = <<>>
    /\ exitCode = 0
    /\ fatalErr = <<>>
    /\ emitted = {}
    /\ summary = <<>>
    /\ jobs = <<>>
    /\ outcomes = <<>>
    /\ rpc = "idle"
    /\ exc = <<>>
    /\ ret = <<>>
    /\ lhr = <<>>
    /\ fault = <<>>
    /\ written = {}
    /\ chromeOpen = 0
    /\ browserOpen = TRUE
    /\ contextOpen = TRUE
    /\ pageOpen = TRUE
    /\ deviceDir = <<>>
    /\ calls = <<>>
    /\ leaked = {}
    /\ clock = 0
    /\ config = <<>>
    /\ contextOptions = <<>>
    /\ page = NoPage
    /\ hpc = "idle"
    /\ hcat = "consent"
    /\ hidx = 1
    /\ hexc = <<>>
    /\ queried = <<>>
    /\ clicks = <<>>
    /\ hret = <<>>
    /\ visited = <<>>
    /\ logged = <<>>
    /\ csvFile = NoFile
    /\ csvPos = 0
    /\ csvOut = <<>>
    /\ csvState = "idle"

NextPageLoad == PageLoad \/ Resolver

SpecPageLoad == InitPageLoad /\ [][NextPageLoad]_vars

----------------------------------------------------------------------------
(* Properties *)

\* the for-of loop of main has run to its end
LoopFinished == i > Len(urls)

IsFailureEntry(e) == "error" \in DOMAIN e
IsSuccessEntry(e) == "scores" \in DOMAIN e

\* C1: when the job loop has finished on a list of N URLs, the ledger has
\* exactly 2N entries, entry 2k-1 is (url_k, description_k, desktop) and entry
\* 2k is (url_k, description_k, mobile), and runLighthouseAudit was called
\* exactly once per (URL, device), in that order, whatever each job's outcome.
C1_LedgerOrder ==
    LoopFinished =>
        /\ Len(results) = 2 * Len(urls)
        /\ \A k \in 1..Len(urls) :
              /\ results[2 * k - 1].url = urls[k].url
              /\ results[2 * k - 1].description = urls[k].description
              /\ results[2 * k - 1].device = "desktop"
              /\ results[2 * k].url = urls[k].url
              /\ results[2 * k].description = urls[k].description
              /\ results[2 * k].device = "mobile"
        /\ Len(jobs) = 2 * Len(urls)
        /\ \A n \in 1..Len(jobs) :
              jobs[n] = <<(n + 1) \div 2, IF n % 2 = 1 THEN "desktop" ELSE "mobile">>

\* a batch of two URLs ran to the end with failed and successful jobs
C1_Witness ==
    /\ pc = "done"
    /\ Len(urls) = 2
    /\ IsFailureEntry(results[1])
    /\ IsSuccessEntry(results[2])
    /\ IsFailureEntry(results[4])

\* C2: when runLighthouseAudit throws for URL k on desktop, main still runs
\* URL k on mobile (and then the later URLs), and the desktop job has its own
\* ledger entry: no job is skipped.
C2_FailureIsolation ==
    pc \in {"done", "exit1"} =>
        \A n \in 1..Len(jobs) :
            jobs[n][2] = "desktop" =>
                /\ n + 1 <= Len(jobs)
                /\ jobs[n + 1] = <<jobs[n][1], "mobile">>
                /\ n <= Len(results)
                /\ results[n].device = "desktop"
                /\ results[n].url = urls[jobs[n][1]].url

ScoreKeys == {"performance", "accessibility", "bestPractices", "seo"}

\* C3: every ledger entry is either a Success (all four scores, each an
\* integer in 0..100, and no error) or a Failure (an error message and no
\* scores), whatever value the job threw.
C3_OutcomeExclusivity ==
    \A n \in 1..Len(results) :
        LET e == results[n] IN
        \/ /\ "scores" \in DOMAIN e
           /\ DOMAIN e.scores = ScoreKeys
           /\ \A c \in ScoreKeys : e.scores[c] \in 0..100
           /\ "error" \notin DOMAIN e
        \/ /\ "error" \in DOMAIN e
           /\ e.error # Undefined
           /\ "scores" \notin DOMAIN e

\* C4: whenever runLighthouseAudit is not running -- before a job, and at the
\* moment it has returned or thrown to main's try/catch -- chrome.kill() has
\* been called on every chrome that chromeLauncher.launch returned; while it
\* runs it holds at most the one chrome it launched.
C4_ChromeKilled ==
    /\ chromeOpen \in {0, 1}
    /\ rpc \in {"idle", "returned", "thrown"} => chromeOpen = 0
    /\ rpc = "launch" => chromeOpen = 0

\* the second job of a batch threw to main because lighthouse() threw, after
\* the first job failed too
C4_Witness ==
    /\ rpc = "thrown"
    /\ fault # <<>>
    /\ fault[1].at = "lighthouse"
    /\ exc = <<fault[1].value>>
    /\ Len(jobs) = 2
    /\ Len(results) = 1
    /\ IsFailureEntry(results[1])
    /\ chromeOpen = 0

\* C5: when runLighthouseAudit returns or throws, the playwright browser it
\* launched and its context have been closed, so a job never starts while a
\* browser or context of an earlier job is open.
C5_ScreenshotBrowserClosed ==
    /\ rpc \in {"returned", "thrown"} => ~browserOpen /\ ~contextOpen
    /\ rpc = "launch" => leaked = {}

ScreenshotSubStep ==
    {"pwLaunch", "newContext", "newPage", "goto", "handleDisclaimers", "screenshot"}

\* C6: once both reports are written, an error raised in the screenshot
\* sub-step never leaves runLighthouseAudit: the job still returns.
C6_ScreenshotNonFatal ==
    ~ /\ rpc = "thrown"
      /\ {ReportPath(deviceDir), JsonPath(deviceDir)} \subseteq written
      /\ fault # <<>>
      /\ fault[1].at \in ScreenshotSubStep
      /\ exc = <<fault[1].value>>

\* C7: when chromeLauncher.launch or lighthouse() fails with an Error, main's
\* catch appends exactly one Failure entry for the job, carrying that error's
\* message, and the batch goes on (nothing is thrown past the per-job catch).
C7_EngineErrorRecorded ==
    [][ ( /\ pc = "await"
          /\ rpc = "thrown"
          /\ fault # <<>>
          /\ fault[1].at \in {"launch", "lighthouse"}
          /\ fault[1].value.kind = "Error" )
        => ( /\ results' = Append(results,
                              [url |-> urls[i].url, description |-> urls[i].description,
                               device |-> dev, error |-> fault[1].value.message])
             /\ pc' \in {"mobile", "loop"}
             /\ exitCode' = 0 ) ]_vars

\* C8: handleDisclaimers never throws to its caller, whatever the page
\* primitives do.
C8_ResolverNeverThrows ==
    /\ hpc # "thrown"
    /\ hexc = <<>>

\* handleDisclaimers returned although every candidate of both catalogs was
\* queried and threw, in locator, isVisible, click or waitForTimeout
C8_Witness ==
    /\ hpc = "done"
    /\ page.load = "idle"
    /\ \A k \in 1..ConsentCount : page.consent[k] \in {"locatorThrows", "isVisibleThrows"}
    /\ \A k \in 1..CookieCount : page.cookie[k] \in {"clickThrows", "settleThrows"}
    /\ Len(queried) = ConsentCount + CookieCount
    /\ Len(clicks) = CookieCount

Queried(cat) == { n \in 1..Len(queried) : queried[n][1] = cat }

\* C9: when waitForLoadState times out, the Consent phase and then the Cookie
\* phase are still run.
C9_TimeoutProceeds ==
    (hpc = "done" /\ page.load = "timeout") =>
        /\ Queried("consent") # {}
        /\ Queried("cookie") # {}
        /\ \A a \in Queried("consent"), b \in Queried("cookie") : a < b

\* C10: in every invocation of handleDisclaimers both phases are attempted:
\* the first Consent candidate and the first Cookie candidate are queried.
C10_BothPhasesRun ==
    hpc = "done" =>
        /\ \E n \in 1..Len(queried) : queried[n] = <<"consent", 1>>
        /\ \E n \in 1..Len(queried) : queried[n] = <<"cookie", 1>>

\* candidates of a catalog for which isVisible resolves true on the page
VisibleOn(cat) ==
    { k \in 1..CatalogLen(cat) : page[cat][k] \in {"visible", "clickThrows", "settleThrows"} }

FirstVisible(cat) == CHOOSE k \in VisibleOn(cat) : \A m \in VisibleOn(cat) : k <= m

ClicksOn(cat) == { n \in 1..Len(clicks) : clicks[n].cat = cat }

\* C11: when a phase has run on a page where two or more candidates of its
\* catalog are visible, exactly one click was made in that catalog, on the
\* earliest visible candidate, and no later candidate was queried or clicked;
\* for the Consent catalog and for the Cookie catalog.
C11_FirstMatchWins ==
    (hpc = "done" /\ page.load = "idle") =>
        \A cat \in {"consent", "cookie"} :
            Cardinality(VisibleOn(cat)) >= 2 =>
                /\ Cardinality(ClicksOn(cat)) = 1
                /\ \A n \in ClicksOn(cat) : clicks[n].idx = FirstVisible(cat)
                /\ \A n \in Queried(cat) : queried[n][2] <= FirstVisible(cat)

\* C12: in one invocation of handleDisclaimers at most one click succeeds on
\* a Consent candidate and at most one on a Cookie candidate, whatever the
\* primitives do.
C12_AtMostOneClick ==
    \A cat \in {"consent", "cookie"} :
        Cardinality({ n \in ClicksOn(cat) : clicks[n].ok }) <= 1

\* steps of the batch that read the input or write a batch artefact
BatchIO == {"readCsv", "ensureOut", "writeLedger", "writeSummary"}

BatchArtefacts == {"audit-summary.json", "audit-summary.html"}

\* C13: on a non-empty URL list, whatever the jobs throw, the job loop runs to
\* its end, the summary template can be rendered from the ledger, and once
\* main is past generateHTMLSummary the ledger and the summary document are
\* written: only a failing file operation stops the batch.
C13_BatchCompletes ==
    urls # <<>> =>
        /\ (pc = "exit1" /\ fatalErr[1] \notin {"readCsv", "ensureOut"}) => LoopFinished
        /\ pc = "genSummary" => ~RenderThrows(results)
        /\ pc \in {"final", "done"} => emitted = BatchArtefacts

\* C14: process.exit(1) is called only for an error of the input read or of a
\* batch file operation, never as a consequence of what a job threw.
C14_JobErrorsKeepExitStatus ==
    (exitCode = 1 /\ pc = "exit1") => fatalErr[1] \in BatchIO

\* C15: an error of the ledger write or of rendering/writing the summary is
\* logged by main's outer catch and the process exits with status 1; after a
\* failed ledger write neither artefact exists, after a failed summary the
\* summary document does not exist.
C15_BatchErrorBoundary ==
    /\ fatalErr # <<>> => (pc = "exit1" /\ exitCode = 1)
    /\ fatalErr = <<"writeLedger">> => emitted = {}
    /\ (fatalErr # <<>> /\ fatalErr[1] \in {"renderSummary", "writeSummary"}) =>
           emitted = {"audit-summary.json"}

\* the ledger write failed after both jobs of a URL were recorded
C15_Witness ==
    /\ fatalErr = <<"writeLedger">>
    /\ pc = "exit1"
    /\ Len(results) >= 2
    /\ LoopFinished

\* C16: when the input cannot be read, readUrlsFromCSV rejects, main's outer
\* catch logs the error and exits with status 1, and no job was started.
C16_InputErrorFatal ==
    (pc = "crashed" \/ fatalErr = <<"readCsv">>) =>
        /\ pc = "exit1"
        /\ fatalErr = <<"readCsv">>
        /\ exitCode = 1
        /\ jobs = <<>>
    /\ outcomes = <<>>

\* lexicographic order of the jobs: URL index, then desktop before mobile
JobBefore(a, b) ==
    \/ a[1] < b[1]
    \/ a[1] = b[1] /\ a[2] = "desktop" /\ b[2] = "mobile"

\* C17: at most one call of runLighthouseAudit is in progress, and it is the
\* last one started; every job started before it has completed and has its
\* ledger entry; a job is started only when no job is in progress and the
\* previous job's sub-steps are over; jobs start in the order URL by URL,
\* desktop before mobile.
C17_Sequential ==
    /\ rpc # "idle" => /\ pc = "await"
                       /\ jobs # <<>>
                       /\ jobs[Len(jobs)] = <<i, dev>>
    /\ hpc # "idle" => rpc = "disclaimers"
    /\ pc = "await" => Len(results) = Len(jobs) - 1
    /\ pc \in {"loop", "mobile"} => /\ rpc = "idle"
                                    /\ hpc = "idle"
                                    /\ Len(results) = Len(jobs)
    /\ rpc = "launch" => ~browserOpen /\ ~contextOpen /\ ~pageOpen /\ chromeOpen = 0
    /\ \A n \in 1..(Len(jobs) - 1) : JobBefore(jobs[n], jobs[n + 1])

\* the desktop job of the second URL is in its screenshot sub-step after both
\* jobs of the first URL completed
C17_Witness ==
    /\ pc = "await"
    /\ rpc = "screenshot"
    /\ jobs = <<<<1, "desktop">>, <<1, "mobile">>, <<2, "desktop">>>>
    /\ Len(results) = 2

\* C19: the audit test fails on the ledger only when it has no entry: on an
\* empty URL list the assertion fails, and on a non-empty list the test fails
\* only for an error of the input read or of a batch file operation, never
\* for what the jobs threw.
C19_SuiteFailsOnlyOnEmptyLedger ==
    /\ pc = "testPassed" => urls # <<>>
    /\ fatalErr = <<"expect">> => results = <<>>
    /\ (pc = "testFailed" /\ urls # <<>>) => fatalErr[1] \in BatchIO

\* the row is kept: its url is present and non-empty after trimming
HasUrl(row) == "url" \in DOMAIN row /\ Trim(row.url) # <<>>

\* the records the input rows stand for
Expected(rows) ==
    LET kept == SelectSeq(rows, HasUrl) IN
    [k \in 1..Len(kept) |->
        [url |-> Trim(kept[k].url),
         description |-> IF "description" \notin DOMAIN kept[k] \/ kept[k].description = ""
                         THEN "No description"
                         ELSE kept[k].description]]

\* C18: the list readUrlsFromCSV resolves to has, in row order, one record per
\* row whose url is non-empty after trimming, with the trimmed url and the
\* row's description, or 'No description' when it is absent or empty; the
\* other rows are skipped.
C18_ReaderRecords ==
    /\ csvOut = Expected(SubSeq(csvFile.rows, 1, csvPos))
    /\ csvState = "resolved" => csvPos = Len(csvFile.rows)
    /\ \A k \in 1..Len(csvOut) :
          /\ csvOut[k].url # <<>>
          /\ csvOut[k].url[1] \notin Whitespace
          /\ csvOut[k].url[Len(csvOut[k].url)] \notin Whitespace
          /\ csvOut[k].description # ""

\* a file whose first row has a blank url and whose second row has a padded
\* url and no description resolved to the one trimmed record
C18_Witness ==
    /\ csvState = "resolved"
    /\ csvFile.rows = << [url |-> <<" ">>, description |-> "D"],
                         [url |-> <<" ", "u", "\t">>] >>
    /\ csvOut = << [url |-> <<"u">>, description |-> "No description"] >>

VisibleIndicators == { k \in 1..IndicatorCount : page.indicator[k] = "visible" }

\* C20: hasDisclaimers never clicks; it returns true exactly when an
\* indicator is visible, having queried the indicators up to the first
\* visible one and none after it; it returns false when none is visible,
\* throwing queries included, having queried them all.
C20_HasDisclaimersObserves ==
    /\ clicks = <<>>
    /\ hpc = "done" =>
          /\ hret = <<VisibleIndicators # {}>>
          /\ queried = [k \in 1..Len(queried) |-> <<"indicator", k>>]
          /\ Len(queried) = IF VisibleIndicators = {}
                            THEN IndicatorCount
                            ELSE CHOOSE k \in VisibleIndicators :
                                     \A m \in VisibleIndicators : k <= m
    /\ hpc # "done" => hret = <<>>

\* true was returned at the second indicator after the first one threw, with
\* a later visible indicator left unqueried
C20_Witness ==
    /\ hpc = "done"
    /\ hret = <<TRUE>>
    /\ page.indicator[1] \in {"locatorThrows", "isVisibleThrows"}
    /\ page.indicator[2] = "visible"
    /\ page.indicator[3] = "visible"
    /\ Len(queried) = 2

\* C21: in one invocation of handleDisclaimers every query and every click of
\* a Consent candidate comes before every query and click of a Cookie
\* candidate, a Cookie candidate is queried only after the first Consent
\* candidate was, and while a Cookie candidate is evaluated no Consent click
\* or settle wait is pending.
C21_ConsentBeforeCookie ==
    /\ \A a \in Queried("consent"), b \in Queried("cookie") : a < b
    /\ \A a \in ClicksOn("consent"), b \in ClicksOn("cookie") : a < b
    /\ Queried("cookie") # {} =>
          /\ queried[1] = <<"consent", 1>>
          /\ hcat = "cookie"
    /\ hcat = "consent" => Queried("cookie") = {} /\ ClicksOn("cookie") = {}

\* a Consent candidate was clicked and settled, then a Cookie candidate clicked
C21_Witness ==
    /\ hpc = "done"
    /\ page.consent[1] = "visible"
    /\ page.cookie[1] = "hidden"
    /\ page.cookie[2] = "visible"
    /\ clicks = << [cat |-> "consent", idx |-> 1, ok |-> TRUE],
                   [cat |-> "cookie", idx |-> 2, ok |-> TRUE] >>
    /\ queried = << <<"consent", 1>>, <<"cookie", 1>>, <<"cookie", 2>> >>

\* C22: when page.locator or isVisible throws for a candidate, no click is
\* made on it, nothing propagates, and the loop goes on with the next
\* candidate of the catalog (after the last Consent candidate: the first
\* Cookie candidate; after the last Cookie candidate: the handler returns).
C22_CandidateIsolation ==
    [][ ( \/ hpc = "locator" /\ Behaviour = "locatorThrows"
          \/ hpc = "isVisible" /\ Behaviour = "isVisibleThrows" )
        => ( /\ clicks' = clicks
             /\ hexc' = <<>>
             /\ IF hidx < CatalogLen(hcat)
                THEN hpc' = "locator" /\ hcat' = hcat /\ hidx' = hidx + 1
                ELSE IF hcat = "consent"
                     THEN hpc' = "locator" /\ hcat' = "cookie" /\ hidx' = 1
                     ELSE hpc' = "done" ) ]_vars

\* the candidate after a throwing one was evaluated and clicked
C22_Witness ==
    /\ hpc = "done"
    /\ page.load = "idle"
    /\ page.consent[1] = "isVisibleThrows"
    /\ page.consent[2] = "visible"
    /\ page.cookie[1] = "locatorThrows"
    /\ page.cookie[2] = "visible"
    /\ Len(clicks) = 2
    /\ clicks[1].idx = 2
    /\ clicks[2].idx = 2

PersistenceSteps == {"ensureDir", "writeHtml", "writeJson"}

\* C23: when ensureDir, the HTML report write or the JSON report write throws
\* in a job, no later step of the try body runs, chrome.kill() has been called
\* when the job leaves runLighthouseAudit, main appends one Failure entry for
\* that job and goes on to the next job with exit status 0.
C23_PersistenceErrorFailsJobOnly ==
    [][ ( fault # <<>> /\ fault[1].at \in PersistenceSteps )
        => ( /\ rpc \in {"kill", "thrown"}
             /\ ~browserOpen
             /\ rpc = "thrown" =>
                   /\ chromeOpen = 0
                   /\ pc = "await"
                   /\ Len(results') = Len(results) + 1
                   /\ LET e == results'[Len(results')] IN
                         /\ Truthy(e)
                         /\ "scores" \notin DOMAIN e
                         /\ e.url = urls[i].url
                         /\ e.device = dev
                   /\ pc' = IF dev = "desktop" THEN "mobile" ELSE "loop"
                   /\ exitCode' = 0
                   /\ rpc' = "idle" ) ]_vars

\* the mobile job, started after the desktop job was recorded, has thrown to
\* main because the JSON report write failed after the HTML report was
\* written, and its chrome is killed
C23_Witness ==
    /\ pc = "await"
    /\ rpc = "thrown"
    /\ fault # <<>>
    /\ fault[1].at = "writeJson"
    /\ exc = <<fault[1].value>>
    /\ written = {ReportPath(deviceDir)}
    /\ chromeOpen = 0
    /\ jobs = << <<1, "desktop">>, <<1, "mobile">> >>
    /\ Len(results) = 1

\* C24: a step of the batch changes the ledger only by appending one entry
\* at its end, and the step in which main handles the outcome of a job,
\* returned or thrown, appends exactly one entry.
C24_LedgerAppendOnly ==
    [][ /\ results' # results =>
              /\ Len(results') = Len(results) + 1
              /\ SubSeq(results', 1, Len(results)) = results
        /\ (pc = "await" /\ rpc \in {"returned", "thrown"}) =>
              Len(results') = Len(results) + 1 ]_vars

InnerTryOrder == <<"goto", "handleDisclaimers", "screenshot">>

\* C25: the calls of the inner try are made in the order page.goto,
\* handleDisclaimers, page.screenshot, each at most once; handleDisclaimers is
\* running only as the second call, page.screenshot is called only when
\* handleDisclaimers is over, and after a failed navigation nothing follows.
C25_ScreenshotSubStepOrder ==
    /\ \E n \in 0..Len(InnerTryOrder) : calls = SubSeq(InnerTryOrder, 1, n)
    /\ hpc # "idle" => calls = SubSeq(InnerTryOrder, 1, 2)
    /\ Len(calls) = Len(InnerTryOrder) => hpc = "idle"
    /\ (fault # <<>> /\ fault[1].at = "goto") => calls = <<"goto">>
    /\ rpc = "disclaimers" => calls \in {<<"goto">>, SubSeq(InnerTryOrder, 1, 2)}
    /\ rpc = "screenshot" => calls = SubSeq(InnerTryOrder, 1, 2)

\* a job returned after navigation, the resolver (which clicked) and the
\* screenshot
C25_Witness ==
    /\ rpc = "returned"
    /\ calls = InnerTryOrder
    /\ clicks # <<>>
    /\ ScreenshotPath(deviceDir) \in written

\* the directory of a path
Dirname(path) == SubSeq(path, 1, Len(path) - 1)

\* C26: when runLighthouseAudit returns, lighthouse-report.html and
\* lighthouse-report.json are written in the directory of the returned report
\* path, and from the launch of the screenshot browser on both are written.
C26_ReportsWritten ==
    /\ rpc = "returned" =>
          /\ ret # <<>>
          /\ Append(Dirname(ret[1].report), "lighthouse-report.html") \in written
          /\ Append(Dirname(ret[1].report), "lighthouse-report.json") \in written
          /\ ret[1].report = ReportPath(deviceDir)
    /\ (browserOpen \/ contextOpen \/ pageOpen \/ calls # <<>>
        \/ rpc \in {"pwLaunch", "newContext", "newPage"}) =>
          {ReportPath(deviceDir), JsonPath(deviceDir)} \subseteq written

\* a job returned although its screenshot failed: the two reports are the
\* only files written
C26_Witness ==
    /\ rpc = "returned"
    /\ ret # <<>>
    /\ written = {ReportPath(deviceDir), JsonPath(deviceDir)}
    /\ fault # <<>>
    /\ fault[1].at = "screenshot"

\* C27: the 'URLs Tested' figure of every summary document rendered,
\* results.length / 2, is the whole number N of URLs of the input list,
\* whatever the jobs did.
C27_UrlsTested ==
    summary # <<>> =>
        /\ summary[1].urlsTested.whole = Len(urls)
        /\ ~summary[1].urlsTested.half

\* a summary was rendered for a batch of two URLs with failed jobs
C27_Witness ==
    /\ summary # <<>>
    /\ "audit-summary.html" \in emitted
    /\ Len(urls) = 2
    /\ summary[1].failed >= 2
    /\ summary[1].successful >= 1

\* the directories of the reports the ledger records
RecordedDirs ==
    { SubSeq(results[k].report, 1, 4) : k \in { n \in 1..Len(results) : IsSuccessEntry(results[n]) } }

\* C28: the directory a job computes is different from the directory of every
\* job of the batch whose reports the ledger records, also for two URLs with
\* the same slug and for a URL listed twice.
C28_JobDirUnique ==
    (pc = "await" /\ deviceDir # <<>>) => deviceDir \notin RecordedDirs

\* C29: the directory of a job is outputDir/<device>/<urlSlug>/<timestamp>; the
\* slug has the length of the URL, keeps its letters and digits and has "_" at
\* every other position; the timestamp has no ":" and no "."; the slug
\* replacement leaves a slug unchanged.
C29_DirectoryShape ==
    deviceDir # <<>> =>
        LET url  == urls[i].url
            slug == deviceDir[3]
            ts   == deviceDir[4]
        IN  /\ Len(deviceDir) = 4
            /\ deviceDir[1] = OutputDir
            /\ deviceDir[2] = dev
            /\ Len(slug) = Len(url)
            /\ \A k \in 1..Len(url) :
                  slug[k] = IF url[k] \in Lower \cup Upper \cup Digits
                            THEN url[k] ELSE "_"
            /\ Len(ts) = 24
            /\ \A k \in 1..Len(ts) : ts[k] \notin {":", "."}
            /\ UrlSlug(slug) = slug

\* the mobile job of the URL "Z.7" has created reports/mobile/Z_7/<timestamp>
\* after the seconds field rolled over
C29_Witness ==
    /\ urls[1].url = <<"Z", ".", "7">>
    /\ dev = "mobile"
    /\ clock = 880
    /\ rpc = "writeHtml"
    /\ deviceDir[3] = <<"Z", "_", "7">>
    /\ deviceDir[4] = <<"2", "0", "2", "6", "-", "1", "0", "-", "3", "0", "T",
                        "2", "1", "-", "0", "7", "-", "5", "3", "-", "0", "0", "0", "Z">>

Categories == {"performance", "accessibility", "bestPractices", "seo"}

\* C30: each score of a returned Success outcome is an integer in 0..100
\* nearest to the engine's score times 100, and of two engine scores the
\* higher never gets the lower rounded score.
C30_ScoresRounded ==
    ret # <<>> =>
        LET l  == lhr[1]
            sc == ret[1].scores
        IN  /\ DOMAIN sc = Categories
            /\ \A c \in Categories :
                  /\ sc[c] \in 0..100
                  /\ 10 * sc[c] - l[c] \in -5..5
            /\ \A c, d \in Categories : l[c] <= l[d] => sc[c] <= sc[d]

\* a job has returned the scores of an audit with performance 0.575 and
\* accessibility 0.576
C30_Witness ==
    /\ rpc = "returned"
    /\ lhr[1].performance = 575
    /\ lhr[1].accessibility = 576
    /\ ret[1].scores.performance = 57
    /\ ret[1].scores.accessibility = 58

\* no candidate appears twice among the queries of the invocation
QueriedOnce ==
    \A a, b \in 1..Len(queried) : queried[a] = queried[b] => a = b

\* C31: handleDisclaimers returns, and on the way it queries each candidate of
\* the two catalogs at most once, the Consent candidates before the Cookie
\* candidates.
C31_ResolverTerminates ==
    /\ <>(hpc = "done")
    /\ [](/\ QueriedOnce
          /\ Len(queried) <= ConsentCount + CookieCount
          /\ hpc # "thrown"
          /\ \A a, b \in 1..Len(queried) :
                (a < b /\ queried[a][1] = queried[b][1]) => queried[a][2] < queried[b][2])

\* the invocation has returned from a page without a visible candidate, after a
\* full pass over both catalogs with a query that threw
C31_Witness ==
    /\ hpc = "done"
    /\ page.load = "idle"
    /\ Len(queried) = ConsentCount + CookieCount
    /\ page.consent[1] = "locatorThrows"
    /\ \A k \in 1..CookieCount : page.cookie[k] = "hidden"
    /\ clicks = <<>>

\* C32: the screenshot context of a job has the viewport of the audit's
\* screen emulation (width and height) and the audit's emulated user agent.
C32_ContextMatchesAudit ==
    contextOptions # <<>> =>
        /\ config # <<>>
        /\ contextOptions[1].userAgent = config[1].settings.emulatedUserAgent
        /\ contextOptions[1].viewport.width = config[1].settings.screenEmulation.width
        /\ contextOptions[1].viewport.height = config[1].settings.screenEmulation.height

\* a candidate of the Consent or the Cookie catalog is visible on the page
ClickableVisible ==
    \/ \E k \in 1..Len(page.consent) : page.consent[k] = "visible"
    \/ \E k \in 1..Len(page.cookie) : page.cookie[k] = "visible"

\* C33: every selector of the Consent and of the Cookie catalog is an
\* indicator of hasDisclaimers, and hasDisclaimers returns true on every page
\* on which a candidate of handleDisclaimers is visible.
C33_IndicatorsCoverCatalogs ==
    /\ Range(ConsentSelectors) \subseteq Range(DisclaimerIndicators)
    /\ Range(CookieSelectors) \subseteq Range(DisclaimerIndicators)
    /\ (hpc = "done" /\ ClickableVisible) => hret = <<TRUE>>

\* C34: in the memory-managed suite an error at one URL is logged and the
\* loop goes on: the test never fails and, when it has ended, every URL was
\* navigated to once, in order.  In the other suite the first error ends the
\* test: no URL after the failing one is visited.
C34_PageLoadContinues ==
    /\ mode = "loadManaged" =>
          /\ pc # "testFailed"
          /\ fatalErr = <<>>
          /\ pc = "testPassed" => visited = [k \in 1..Len(urls) |-> k]
          /\ \A k \in 1..Len(logged) : logged[k].idx \in 1..Len(urls)
    /\ (mode = "loadPlain" /\ logged # <<>>) =>
          /\ pc = "testFailed"
          /\ Len(logged) = 1
          /\ visited = [k \in 1..logged[1].idx |-> k]

\* the memory-managed test has passed on two URLs: the first failed in
\* navigation and was logged, the second was visited and its screenshot taken
C34_Witness ==
    /\ mode = "loadManaged"
    /\ pc = "testPassed"
    /\ Len(urls) = 2
    /\ urls[1].description # urls[2].description
    /\ Len(logged) = 1
    /\ logged[1].idx = 1
    /\ logged[1].at = "goto"
    /\ visited = <<1, 2>>
    /\ emitted = {BrowserScreenshot(urls[2].description)}

\* the ledger entry of the k-th runLighthouseAudit call of a batch, from the
\* URL list and the way the call settled
EntryOf(k) ==
    LET u == urls[(k + 1) \div 2]
        d == IF k % 2 = 1 THEN "desktop" ELSE "mobile"
        o == outcomes[k]
    IN  IF o.kind = "returned" THEN SuccessEntry(u, d, o.value)
                               ELSE FailureEntry(u, d, o.value)

IsNullishOutcome(o) == o.kind = "thrown" /\ o.value.kind = "Nullish"

\* C35: in main, in the audit test and in the audit test with delays the
\* ledger is the same function of the URL list and of the outcomes of the
\* runLighthouseAudit calls, entry for entry, and the calls are those of the
\* URLs in order, desktop before mobile.
C35_VariantsSameLedger ==
    /\ Len(outcomes) <= 2 * Len(urls)
    /\ \A k \in 1..Len(results) :
          /\ k <= Len(outcomes)
          /\ ~IsNullishOutcome(outcomes[k])
          /\ results[k] = EntryOf(k)
    /\ Len(outcomes) \in {Len(results), Len(results) + 1}
    /\ Len(outcomes) > Len(results) =>
          /\ IsNullishOutcome(outcomes[Len(outcomes)])
          /\ pc \in {"exit1", "testFailed"}
    /\ (LoopFinished /\ pc \notin {"exit1", "testFailed", "crashed"}) =>
          Len(outcomes) = 2 * Len(urls)
    /\ jobs = [k \in 1..Len(jobs) |->
                  <<(k + 1) \div 2, IF k % 2 = 1 THEN "desktop" ELSE "mobile">>]

\* the audit test with delays has passed on two URLs with a returned and a
\* thrown job, with the four entries in the ledger
C35_Witness ==
    /\ mode = "testManaged"
    /\ pc = "testPassed"
    /\ Len(urls) = 2
    /\ Len(results) = 4
    /\ outcomes[1].kind = "returned"
    /\ outcomes[2].kind = "thrown"
    /\ IsSuccessEntry(results[3])
    /\ results[3].device = "desktop"
    /\ results[3].url = urls[2].url

\* the runLighthouseAudit calls of the batch that settled in the given way
Settled(kind) == { k \in 1..Len(outcomes) : outcomes[k].kind = kind }

\* C36: in the summary document and in the final summary of main the number
\* of successful audits is the number of calls that returned, the number of
\* failed audits the number of calls that threw, the two add up to the ledger
\* length, and the averages are taken over the entries that carry scores.
C36_SummaryCounts ==
    \A n \in 1..Len(summary) :
        /\ summary[n].successful = Cardinality(Settled("returned"))
        /\ summary[n].failed = Cardinality(Settled("thrown"))
        /\ summary[n].successful + summary[n].failed = Len(results)
        /\ summary[n].averaged = { k \in 1..Len(results) : IsSuccessEntry(results[k]) }

\* main has printed its final summary for two URLs of which one job threw
C36_Witness ==
    /\ pc = "done"
    /\ Len(summary) = 2
    /\ Len(urls) = 2
    /\ summary[2].successful = 3
    /\ summary[2].failed = 1
    /\ summary[1].failed = 1
    /\ summary[2].avgScores[1].performance = 100

\* C37: when runLighthouseAudit throws after lighthouse() threw, the error it
\* throws is the audit engine's error, and it never throws because of
\* chrome.kill() alone: a job whose steps before the teardown all succeeded
\* returns.
C37_TeardownNeverMasks ==
    rpc = "thrown" =>
        /\ fault # <<>>
        /\ fault[1].at = "lighthouse" => exc = <<fault[1].value>>
        /\ fault[1].at # "kill"

\* C38: the value runLighthouseAudit returns carries the screenshot path
\* page-screenshot.png in the job's directory; the file of that path is
\* written exactly when navigation, handleDisclaimers and page.screenshot all
\* completed, and after a failure of one of them the path is that of a file
\* that was not written.
C38_ScreenshotPathReturned ==
    ret # <<>> =>
        /\ ret[1].screenshot = ScreenshotPath(deviceDir)
        /\ Dirname(ret[1].screenshot) = deviceDir
        /\ Dirname(ret[1].screenshot) = Dirname(ret[1].report)
        /\ ret[1].screenshot \in written => (calls = InnerTryOrder /\ fault = <<>>)
        /\ fault # <<>> =>
              /\ fault[1].at \in {"goto", "handleDisclaimers", "screenshot"}
              /\ ret[1].screenshot \notin written
        /\ fault = <<>> => ret[1].screenshot \in written

\* a job has returned a Success outcome after page.screenshot threw: both
\* reports are written, the screenshot of the returned path is not
C38_Witness ==
    /\ rpc = "returned"
    /\ ret # <<>>
    /\ fault # <<>>
    /\ fault[1].at = "screenshot"
    /\ calls = InnerTryOrder
    /\ written = {ReportPath(deviceDir), JsonPath(deviceDir)}
    /\ ret[1].screenshot \notin written

====
